---------------------------- MODULE Spec2Model ----------------------------
(***************************************************************************)
(* Reliable UDP messaging of the Second Life viewer port:                  *)
(*   LLCircuitData / LLCircuit   (phase2-sources/.../llcircuit.cpp)        *)
(*   LLMessageSystem             (phase2-sources/.../message.cpp)          *)
(*                                                                         *)
(* Time is counted in whole seconds.  U32 counters are kept modulo         *)
(* 2^CounterBits.  A packet buffer is a record of its sequence number, its *)
(* send time, its retry count and its bytes.                               *)
(***************************************************************************)
EXTENDS Integers, Sequences, FiniteSets, TLC

(* ------------------------------ bounds -------------------------------- *)

\* number of distinct peers (LLHost values)
NumHosts == 2
\* width of the modelled U32 counters
CounterBits == 3
\* a circuit hands out sequence numbers 0 .. MaxSeq-1 in the system runs
MaxSeq == 2
\* a circuit records at most MaxIn inbound packets
MaxIn == 5
\* inbound sequence numbers are drawn from 0 .. MaxInId and the largest U32
MaxInId == 4
\* the clock stops at MaxTime seconds; in the free runs of the system it
\* stops at SystemTime seconds
MaxTime == 122
SystemTime == 12
\* the clock advances in steps just past the packet timeout
TickShort == 6
\* datagrams drained by one checkMessages
MaxBatch == 2
\* datagrams received in a run, and datagrams handed to the transport in a run
MaxReceived == 2
MaxSent == 2
\* handlers registered per message name
MaxHandlers == 2
\* threads that call into LLCircuit concurrently, and calls each of them makes
NumThreads == 2
MaxCalls == 2

(* ------------------------- program constants -------------------------- *)

DefaultTimeoutSeconds == 5
DefaultMaxCircuits == 256
GiveUpRetries == 3
CircuitDeadSeconds == 60
MinHeaderSize == 6
LL_RELIABLE_FLAG == 1
LL_ZEROCODED_FLAG == 2

Hosts == 1 .. NumHosts
Modulus == 2 ^ CounterBits
U32(x) == x % Modulus
Byte == 0 .. 255

Min(S) == CHOOSE x \in S : \A y \in S : x <= y

(* ----------------------- LLMessageTemplate table ---------------------- *)

\* initializeMessageTemplates: name, number, reliable
MessageTemplates ==
    { [name |-> "StartPingCheck",       num |-> 1,   reliable |-> TRUE ],
      [name |-> "CompletePingCheck",    num |-> 2,   reliable |-> TRUE ],
      [name |-> "LoginRequest",         num |-> 3,   reliable |-> TRUE ],
      [name |-> "LoginReply",           num |-> 4,   reliable |-> TRUE ],
      [name |-> "ChatFromViewer",       num |-> 80,  reliable |-> TRUE ],
      [name |-> "ChatFromSimulator",    num |-> 81,  reliable |-> FALSE],
      [name |-> "UpdateUserInfo",       num |-> 180, reliable |-> TRUE ],
      [name |-> "RegionHandshake",      num |-> 148, reliable |-> FALSE],
      [name |-> "RegionHandshakeReply", num |-> 149, reliable |-> TRUE ] }

TemplateNames == { t.name : t \in MessageTemplates }
TemplateByName(n) == CHOOSE t \in MessageTemplates : t.name = n
\* mMessageNumbers.find(msgnum)
KnownNumber(n) == \E t \in MessageTemplates : t.num = n
TemplateByNumber(n) == CHOOSE t \in MessageTemplates : t.num = n

(* ----------------------------- LLCircuitData -------------------------- *)

\* LLCircuitData::LLCircuitData at time t
NewCircuitData(t) ==
    [ mAlive                |-> TRUE,
      mBlocked              |-> FALSE,
      mPacketsOut           |-> 0,
      mPacketsIn            |-> 0,
      mPacketsLost          |-> 0,
      mPacketLoss           |-> 0,
      mLastReceiveTime      |-> t,
      mLastSendTime         |-> t,
      mPingDelay            |-> 0,
      mPingDelayAveraged    |-> 0,
      mNextOutgoingSequence |-> 0,
      mNextIncomingSequence |-> 0,
      mOldestUnackedPacket  |-> 0,
      mUnackedPackets       |-> << >>,
      mRetryQueue           |-> << >> ]

\* a packet buffer as the circuit stores it
PacketBuffer(seq, t, retries, bytes) ==
    [ sequence |-> seq, sentTime |-> t, retryCount |-> retries, data |-> bytes ]

\* keys of the std::map mUnackedPackets
UnackedKeys(c) == DOMAIN c.mUnackedPackets

\* sequence numbers waiting in the std::queue mRetryQueue
RetrySeqs(c) == { c.mRetryQueue[i].sequence : i \in 1 .. Len(c.mRetryQueue) }


\* ascending enumeration of a finite set of numbers (std::map iteration order)
RECURSIVE Ascending(_)
Ascending(S) ==
    IF S = {} THEN << >>
    ELSE LET m == Min(S) IN << m >> \o Ascending(S \ {m})

\* what an unsigned division by zero may do: trap, or yield 0
DivByZeroOutcomes == { "trap", "zero" }

\* LLCircuitData::checkPacketInID, lines 80-92: counters and expected sequence
checkPacketInID_count(c, id, t) ==
    LET c1 == [c EXCEPT !.mLastReceiveTime = t,
                        !.mPacketsIn = U32(c.mPacketsIn + 1)]
    IN  IF id > c1.mNextIncomingSequence
        THEN [c1 EXCEPT !.mPacketsLost =
                            U32(c1.mPacketsLost + U32(id - c1.mNextIncomingSequence)),
                        !.mNextIncomingSequence = U32(id + 1)]
        ELSE IF id = c1.mNextIncomingSequence
        THEN [c1 EXCEPT !.mNextIncomingSequence = U32(c1.mNextIncomingSequence + 1)]
        ELSE c1

\* the divisor of line 96 is zero (mPacketsIn + mPacketsLost wrapped)
checkPacketInID_divzero(c, id, t) ==
    LET c1 == checkPacketInID_count(c, id, t)
    IN  c1.mPacketsIn > 0 /\ U32(c1.mPacketsIn + c1.mPacketsLost) = 0

\* LLCircuitData::checkPacketInID; ub is the outcome of a division by zero
checkPacketInID(c, id, t, ub) ==
    LET c1 == checkPacketInID_count(c, id, t)
    IN  IF c1.mPacketsIn > 0
        THEN IF U32(c1.mPacketsIn + c1.mPacketsLost) = 0
             THEN IF ub = "zero" THEN [c1 EXCEPT !.mPacketLoss = 0] ELSE c1
             ELSE [c1 EXCEPT !.mPacketLoss =
                       U32(c1.mPacketsLost * 100)
                           \div U32(c1.mPacketsIn + c1.mPacketsLost)]
        ELSE c1

\* a nextPacketOutID that does not advance the sequence counter
nextPacketOutID_stuck(c, t) ==
    [c EXCEPT !.mLastSendTime = t,
              !.mPacketsOut = U32(c.mPacketsOut + 1)]

\* a nextPacketOutID that does not count the packet
nextPacketOutID_uncounted(c, t) ==
    [c EXCEPT !.mLastSendTime = t,
              !.mNextOutgoingSequence = U32(c.mNextOutgoingSequence + 1)]

\* LLCircuitData::nextPacketOutID: the circuit after the call
nextPacketOutID(c, t) ==
    [c EXCEPT !.mLastSendTime = t,
              !.mPacketsOut = U32(c.mPacketsOut + 1),
              !.mNextOutgoingSequence = U32(c.mNextOutgoingSequence + 1)]

\* LLCircuitData::nextPacketOutID: the value returned
nextPacketOutID_result(c) == c.mNextOutgoingSequence

\* the null LLPacketBuffer pointer
NullPacket == [ null |-> TRUE ]

\* LLCircuitData::addReliablePacket; packet is a PacketBuffer or NullPacket
addReliablePacket(c, packet_id, packet, t) ==
    IF packet = NullPacket THEN c
    ELSE LET buffer == PacketBuffer(packet_id, t, packet.retryCount, packet.data)
             unacked == [k \in UnackedKeys(c) \cup {packet_id} |->
                            IF k = packet_id THEN buffer ELSE c.mUnackedPackets[k]]
         IN  [c EXCEPT !.mUnackedPackets = unacked,
                       !.mOldestUnackedPacket =
                           IF Cardinality(DOMAIN unacked) = 1
                           THEN packet_id ELSE c.mOldestUnackedPacket]

\* the exponentially weighted ping average, in hundredths of a second
\* (0.95 old, 0.05 new; the first sample initialises it)
PingAverage(avg, ping) ==
    IF avg = 0 THEN ping * 100
    ELSE (avg * 95 + ping * 100 * 5) \div 100

\* an acknowledgement that erases the oldest entry, whatever was acknowledged
ackReliablePacket_oldest(c, packet_id, t) ==
    IF UnackedKeys(c) # {}
    THEN LET rest == [k \in UnackedKeys(c) \ {Min(UnackedKeys(c))} |-> c.mUnackedPackets[k]]
         IN  [c EXCEPT !.mUnackedPackets = rest]
    ELSE c

\* an ackReliablePacket that also looks for the packet in the retry queue
ackReliablePacket_queued(c, packet_id, t) ==
    LET kept == SelectSeq(c.mRetryQueue, LAMBDA b : b.sequence # packet_id)
        rest == [k \in UnackedKeys(c) \ {packet_id} |-> c.mUnackedPackets[k]]
    IN  IF packet_id \in UnackedKeys(c)
        THEN [c EXCEPT !.mPingDelayAveraged =
                           PingAverage(c.mPingDelayAveraged,
                                       t - c.mUnackedPackets[packet_id].sentTime),
                       !.mPingDelay = t - c.mUnackedPackets[packet_id].sentTime,
                       !.mUnackedPackets = rest,
                       !.mOldestUnackedPacket =
                           IF DOMAIN rest # {} THEN Min(DOMAIN rest)
                           ELSE c.mOldestUnackedPacket]
        ELSE [c EXCEPT !.mRetryQueue = kept]

\* LLCircuitData::ackReliablePacket
ackReliablePacket(c, packet_id, t) ==
    IF packet_id \in UnackedKeys(c)
    THEN LET ping == t - c.mUnackedPackets[packet_id].sentTime
             rest == [k \in UnackedKeys(c) \ {packet_id} |-> c.mUnackedPackets[k]]
         IN  [c EXCEPT !.mPingDelayAveraged = PingAverage(c.mPingDelayAveraged, ping),
                       !.mPingDelay = ping,
                       !.mUnackedPackets = rest,
                       !.mOldestUnackedPacket =
                           IF DOMAIN rest # {} THEN Min(DOMAIN rest)
                           ELSE c.mOldestUnackedPacket]
    ELSE c

\* a sweep that also times out the entries sent exactly timeout_seconds ago
TimedOut_inclusive(c, timeout_seconds, t) ==
    { k \in UnackedKeys(c) : t - c.mUnackedPackets[k].sentTime >= timeout_seconds }

\* the unacked entries a sweep at time t finds timed out
TimedOut(c, timeout_seconds, t) ==
    { k \in UnackedKeys(c) : t - c.mUnackedPackets[k].sentTime > timeout_seconds }

\* a sweep that still retries a packet whose retry count has reached 3
LLCircuitData_checkForTimeouts_late(c, timeout_seconds, t) ==
    LET late    == TimedOut(c, timeout_seconds, t)
        bumped(k) == [c.mUnackedPackets[k] EXCEPT !.retryCount = @ + 1]
        retry   == { k \in late : bumped(k).retryCount <= GiveUpRetries }
        order   == Ascending(retry)
    IN  [c EXCEPT
           !.mRetryQueue = @ \o [i \in 1 .. Len(order) |-> bumped(order[i])],
           !.mPacketsLost = U32(@ + Cardinality(late \ retry)),
           !.mUnackedPackets = [k \in UnackedKeys(c) \ late |-> c.mUnackedPackets[k]]]

\* LLCircuitData::checkForTimeouts
LLCircuitData_checkForTimeouts(c, timeout_seconds, t) ==
    LET late    == TimedOut(c, timeout_seconds, t)
        bumped(k) == [c.mUnackedPackets[k] EXCEPT !.retryCount = @ + 1]
        retry   == { k \in late : bumped(k).retryCount < GiveUpRetries }
        order   == Ascending(retry)
        c1 == [c EXCEPT
                 !.mRetryQueue = @ \o [i \in 1 .. Len(order) |-> bumped(order[i])],
                 !.mPacketsLost = U32(@ + Cardinality(late \ retry)),
                 !.mUnackedPackets = [k \in UnackedKeys(c) \ late |-> c.mUnackedPackets[k]]]
    IN  IF t - c.mLastReceiveTime > CircuitDeadSeconds
        THEN [c1 EXCEPT !.mAlive = FALSE]
        ELSE c1

\* LLCircuitData::hasRetries
hasRetries(c) == c.mRetryQueue # << >>

\* LLCircuitData::getNextRetry: the circuit after the call
getNextRetry(c) ==
    IF c.mRetryQueue = << >> THEN c
    ELSE [c EXCEPT !.mRetryQueue = Tail(@)]


(* ------------------------------- LLCircuit ---------------------------- *)

\* LLCircuit::findCircuit: the host has a circuit
findCircuit(tbl, host) == host \in DOMAIN tbl

\* LLCircuit::addCircuit succeeds (the table is below mMaxCircuits)
addCircuit_ok(tbl, max) == ~ (Cardinality(DOMAIN tbl) >= max)

\* an addCircuit that refuses only above mMaxCircuits
addCircuit_above(tbl, host, max, t) ==
    IF Cardinality(DOMAIN tbl) > max THEN tbl
    ELSE [h \in DOMAIN tbl \cup {host} |->
             IF h = host THEN NewCircuitData(t) ELSE tbl[h]]

\* LLCircuit::addCircuit: the table after the call
addCircuit(tbl, host, max, t) ==
    IF Cardinality(DOMAIN tbl) >= max THEN tbl
    ELSE [h \in DOMAIN tbl \cup {host} |->
             IF h = host THEN NewCircuitData(t) ELSE tbl[h]]

\* findCircuit, then addCircuit when there is none (lines 287-290, 298-301, 307-310)
findOrAddCircuit(tbl, host, max, t) ==
    IF findCircuit(tbl, host) THEN tbl ELSE addCircuit(tbl, host, max, t)

\* LLCircuit::removeCircuit
removeCircuit(tbl, host) ==
    [h \in DOMAIN tbl \ {host} |-> tbl[h]]

\* a table sweep that marks the dead circuits and leaves them in the table
LLCircuit_checkForTimeouts_marking(tbl, allow, timeout, t) ==
    IF ~ allow THEN tbl
    ELSE [h \in DOMAIN tbl |-> LLCircuitData_checkForTimeouts(tbl[h], timeout, t)]

\* LLCircuit::checkForTimeouts: sweep every circuit, erase the dead ones
LLCircuit_checkForTimeouts(tbl, allow, timeout, t) ==
    IF ~ allow THEN tbl
    ELSE LET swept == [h \in DOMAIN tbl |->
                          LLCircuitData_checkForTimeouts(tbl[h], timeout, t)]
             alive == { h \in DOMAIN tbl : swept[h].mAlive }
         IN  [h \in alive |-> swept[h]]

\* an ackReliablePacket that adds a circuit for a host that has none
LLCircuit_ackReliablePacket_creating(tbl, host, packet_id, t) ==
    LET tbl1 == findOrAddCircuit(tbl, host, DefaultMaxCircuits, t)
    IN  [tbl1 EXCEPT ![host] = ackReliablePacket(@, packet_id, t)]

\* LLCircuit::ackReliablePacket
LLCircuit_ackReliablePacket(tbl, host, packet_id, t) ==
    IF findCircuit(tbl, host)
    THEN [tbl EXCEPT ![host] = ackReliablePacket(@, packet_id, t)]
    ELSE tbl

\* an addReliablePacket that finds or adds the circuit and installs nothing
LLCircuit_addReliablePacket_dropped(tbl, host, packet_id, packet, max, t) ==
    findOrAddCircuit(tbl, host, max, t)

\* LLCircuit::addReliablePacket
LLCircuit_addReliablePacket(tbl, host, packet_id, packet, max, t) ==
    LET tbl1 == findOrAddCircuit(tbl, host, max, t)
    IN  IF findCircuit(tbl1, host)
        THEN [tbl1 EXCEPT ![host] = addReliablePacket(@, packet_id, packet, t)]
        ELSE tbl1

\* LLCircuit::nextPacketID: the table after the call
LLCircuit_nextPacketID(tbl, host, max, t) ==
    LET tbl1 == findOrAddCircuit(tbl, host, max, t)
    IN  IF findCircuit(tbl1, host)
        THEN [tbl1 EXCEPT ![host] = nextPacketOutID(@, t)]
        ELSE tbl1

\* a nextPacketID that returns the largest number when there is no circuit
LLCircuit_nextPacketID_result_sentinel(tbl, host, max, t) ==
    LET tbl1 == findOrAddCircuit(tbl, host, max, t)
    IN  IF findCircuit(tbl1, host)
        THEN nextPacketOutID_result(tbl1[host])
        ELSE Modulus - 1

\* LLCircuit::nextPacketID: the value returned
LLCircuit_nextPacketID_result(tbl, host, max, t) ==
    LET tbl1 == findOrAddCircuit(tbl, host, max, t)
    IN  IF findCircuit(tbl1, host)
        THEN nextPacketOutID_result(tbl1[host])
        ELSE 0

\* LLCircuit::checkPacketIn
LLCircuit_checkPacketIn(tbl, host, packet_id, max, t, ub) ==
    LET tbl1 == findOrAddCircuit(tbl, host, max, t)
    IN  IF findCircuit(tbl1, host)
        THEN [tbl1 EXCEPT ![host] = checkPacketInID(@, packet_id, t, ub)]
        ELSE tbl1

\* the while loop of LLCircuit::processRetries on one circuit
RECURSIVE drainRetries(_)
drainRetries(c) ==
    IF hasRetries(c) THEN drainRetries(getNextRetry(c)) ELSE c

\* LLCircuit::processRetries
LLCircuit_processRetries(tbl) ==
    [h \in DOMAIN tbl |-> drainRetries(tbl[h])]


(* ------------------------------ wire format --------------------------- *)

\* a U32 as four bytes, least significant first
LE32(n) ==
    << n % 256, (n \div 256) % 256, (n \div 65536) % 256, (n \div 16777216) % 256 >>

\* a U32 as four bytes, least significant last
BE32(n) ==
    << (n \div 16777216) % 256, (n \div 65536) % 256, (n \div 256) % 256, n % 256 >>

\* bit test: (flags & bit) != 0, bit a power of two
HasFlag(flags, bit) == (flags \div bit) % 2 = 1

\* LLMessageTemplate::getZeroCoded: loadMessageTemplate sets no zero-coded flag
getZeroCoded(tmpl) == FALSE

\* addMessageHeader, lines 291-305: the message number in 1, 3 or 6 bytes
MessageNumberBytes(msgnum) ==
    IF msgnum < 256 THEN << msgnum >>
    ELSE IF msgnum < 65536 THEN << 255, (msgnum \div 256) % 256, msgnum % 256 >>
    ELSE << 255, 255 >> \o LE32(msgnum)

\* the header bytes [Flags:1][Sequence:4][MessageNum:1-4]
HeaderBytes(flags, sequence, msgnum) ==
    << flags >> \o LE32(sequence) \o MessageNumberBytes(msgnum)

\* LLMessageSystem::addMessageHeader: the bytes appended for a known template
addMessageHeader(msgname) ==
    LET tmpl  == TemplateByName(msgname)
        flags == (IF tmpl.reliable THEN LL_RELIABLE_FLAG ELSE 0)
                   + (IF getZeroCoded(tmpl) THEN LL_ZEROCODED_FLAG ELSE 0)
    IN  HeaderBytes(flags, 0, tmpl.num)

\* trailing ACK piggybacks of a datagram: the acked sequences, then their count
AckTrailer(acks) ==
    LET RECURSIVE Cat(_)
        Cat(q) == IF q = << >> THEN << >> ELSE BE32(Head(q)) \o Cat(Tail(q))
    IN  Cat(acks) \o << Len(acks) >>

\* a datagram a peer sends: header, then the ACK trailer
PeerDatagram(flags, sequence, msgnum, acks) ==
    HeaderBytes(flags, sequence, msgnum) \o AckTrailer(acks)

(* --------------------------- LLMessageSystem -------------------------- *)

\* buffer[i] of the receive buffer that holds a datagram of Len(buffer) bytes;
\* past the datagram the buffer holds whatever was there before (junk)
ByteAt(buffer, i, junk) ==
    IF i < Len(buffer) THEN buffer[i + 1] ELSE junk

\* *reinterpret_cast<U32*>(buffer + i) on a little-endian host
ReadU32(buffer, i, junk) ==
    ByteAt(buffer, i, junk) + 256 * ByteAt(buffer, i + 1, junk)
      + 65536 * ByteAt(buffer, i + 2, junk) + 16777216 * ByteAt(buffer, i + 3, junk)

\* processMessage, lines 323-338: the message number read from the header
ParseMessageNumber(buffer, junk) ==
    IF ByteAt(buffer, 5, junk) = 255
    THEN IF ByteAt(buffer, 6, junk) = 255
         THEN ReadU32(buffer, 7, junk)
         ELSE ByteAt(buffer, 6, junk) * 256 + ByteAt(buffer, 7, junk)
    ELSE ByteAt(buffer, 5, junk)

\* processMessage, lines 323-338: the payload offset
ParseOffset(buffer, junk) ==
    IF ByteAt(buffer, 5, junk) = 255
    THEN IF ByteAt(buffer, 6, junk) = 255 THEN 11 ELSE 8
    ELSE 6

\* LLMessageSystem::decodeZeroData on the payload region: the loop finds the
\* pairs (0, N) and reads N as the run length, and writes nothing; the
\* region after the call
RECURSIVE decodeZeroData_loop(_, _)
decodeZeroData_loop(buffer, i) ==
    IF ~ (i < Len(buffer) - 1) THEN buffer
    ELSE LET zero_count == IF buffer[i + 1] = 0 /\ buffer[i + 2] # 0
                           THEN buffer[i + 2] ELSE 0
         IN  decodeZeroData_loop(buffer, i + 1)

decodeZeroData(buffer) == decodeZeroData_loop(buffer, 0)

\* the handlers an application registers: handlers 1 .. MaxHandlers return,
\* one throws a std::exception, one throws a value that is no std::exception
ThrowsStdException == MaxHandlers + 1
ThrowsOther == MaxHandlers + 2

\* what a call of handler f does
HandlerOutcome(f) ==
    IF f = ThrowsStdException THEN "std::exception"
    ELSE IF f = ThrowsOther THEN "other"
    ELSE "returns"

\* the handlers processMessage finds: those registered for the name, in order
InvokedHandlers(handlers, msgname) ==
    IF msgname \in DOMAIN handlers THEN handlers[msgname] ELSE << >>

\* the dispatch loop, lines 363-370: every handler is called in turn; what a
\* handler throws is caught when it is a std::exception, and leaves the loop
\* and processMessage otherwise
RECURSIVE Dispatched(_)
Dispatched(hs) ==
    IF hs = << >> THEN << >>
    ELSE IF HandlerOutcome(Head(hs)) = "other" THEN << Head(hs) >>
    ELSE << Head(hs) >> \o Dispatched(Tail(hs))

\* the dispatch loop is left by an exception
Escapes(hs) == \E i \in 1 .. Len(hs) : HandlerOutcome(hs[i]) = "other"

\* a processMessage that handles the reliable flag before it looks up the
\* message number
processMessage_early(tbl, sender, buffer, handlers, max, t, junk) ==
    IF Len(buffer) < MinHeaderSize
    THEN [ ok |-> FALSE, table |-> tbl, invoked |-> << >>, threw |-> FALSE ]
    ELSE LET flags    == ByteAt(buffer, 0, junk)
             sequence == U32(ReadU32(buffer, 1, junk))
             tbl1 == IF HasFlag(flags, LL_RELIABLE_FLAG)
                     THEN LLCircuit_addReliablePacket(tbl, sender, sequence,
                              PacketBuffer(0, 0, 0, buffer), max, t)
                     ELSE tbl
             known == KnownNumber(ParseMessageNumber(buffer, junk))
             hs == IF known
                   THEN Dispatched(InvokedHandlers(handlers,
                            TemplateByNumber(ParseMessageNumber(buffer, junk)).name))
                   ELSE << >>
         IN  [ ok |-> known, table |-> tbl1,
               invoked |-> [i \in 1 .. Len(hs) |->
                               [ handler |-> hs[i],
                                 name |-> TemplateByNumber(ParseMessageNumber(buffer, junk)).name,
                                 sender |-> sender, sequence |-> sequence,
                                 payload |-> << >> ]],
               threw |-> FALSE ]

\* LLMessageSystem::processMessage: the value returned, the circuit table after
\* the call, the handler invocations made, in order, each with the payload
\* region the handler finds in the receive buffer, and whether an exception
\* left the call
processMessage(tbl, sender, buffer, handlers, max, t, junk) ==
    IF Len(buffer) < MinHeaderSize
    THEN [ ok |-> FALSE, table |-> tbl, invoked |-> << >>, threw |-> FALSE ]
    ELSE LET flags    == ByteAt(buffer, 0, junk)
             reliable == HasFlag(flags, LL_RELIABLE_FLAG)
             zerocoded == HasFlag(flags, LL_ZEROCODED_FLAG)
             sequence == U32(ReadU32(buffer, 1, junk))
             msgnum   == ParseMessageNumber(buffer, junk)
             offset   == ParseOffset(buffer, junk)
         IN  IF ~ KnownNumber(msgnum)
             THEN [ ok |-> FALSE, table |-> tbl, invoked |-> << >>, threw |-> FALSE ]
             ELSE LET tmpl == TemplateByNumber(msgnum)
                      tbl1 == IF reliable
                              THEN LLCircuit_addReliablePacket(tbl, sender, sequence,
                                       PacketBuffer(0, 0, 0, buffer), max, t)
                              ELSE tbl
                      region == SubSeq(buffer, offset + 1, Len(buffer))
                      payload == IF zerocoded THEN decodeZeroData(region) ELSE region
                      found == InvokedHandlers(handlers, tmpl.name)
                      hs   == Dispatched(found)
                  IN  [ ok |-> ~ Escapes(found), table |-> tbl1,
                        invoked |-> [i \in 1 .. Len(hs) |->
                                        [ handler |-> hs[i], name |-> tmpl.name,
                                          sender |-> sender, sequence |-> sequence,
                                          payload |-> payload ]],
                        threw |-> Escapes(found) ]

\* the receive loop of checkMessages over the datagrams the transport holds:
\* each is a record [sender, data]; an exception that leaves processMessage
\* leaves the loop, with the datagrams received so far counted
\* the loop's outcome after a datagram with outcome r, when the rest of the
\* batch has the outcome rest
processedThen(r, rest) ==
    [ table    |-> rest.table,
      invoked  |-> r.invoked \o rest.invoked,
      failed   |-> rest.failed + (IF r.ok THEN 0 ELSE 1),
      received |-> 1 + rest.received,
      threw    |-> rest.threw ]

RECURSIVE processAll(_, _, _, _, _, _)
processAll(tbl, batch, handlers, max, t, junk) ==
    IF batch = << >>
    THEN [ table |-> tbl, invoked |-> << >>, failed |-> 0, received |-> 0,
           threw |-> FALSE ]
    ELSE CHOOSE outcome \in
           { IF r.threw
             THEN [ table |-> r.table, invoked |-> r.invoked, failed |-> 0,
                    received |-> 1, threw |-> TRUE ]
             ELSE CHOOSE o \in
                    { processedThen(r, rest) :
                        rest \in { processAll(r.table, Tail(batch), handlers, max, t, junk) } } :
                    TRUE
             : r \in { processMessage(tbl, Head(batch).sender, Head(batch).data,
                                      handlers, max, t, junk) } } : TRUE

\* total size of the datagrams of a batch
RECURSIVE BatchBytes(_)
BatchBytes(batch) ==
    IF batch = << >> THEN 0 ELSE Len(Head(batch).data) + BatchBytes(Tail(batch))


(* -------------------------------- state ------------------------------- *)

VARIABLES
    mCircuitData,      \* LLCircuit: host -> LLCircuitData
    mTimeoutSeconds,   \* LLCircuit
    mAllowTimeout,     \* LLCircuit
    mMaxCircuits,      \* LLCircuit
    mPacketsIn,        \* LLMessageSystem statistics
    mPacketsOut,
    mBytesIn,
    mBytesOut,
    mCurrentMessage,   \* LLMessageSystem: name of the template being built, or "none"
    mSendBuffer,       \* LLMessageSystem: bytes of the message being built
    mHandlerMap,       \* LLMessageSystem: name -> handlers in registration order
    now,               \* std::chrono::steady_clock, whole seconds
    crashed,           \* the process died on a trap
    invoked,           \* handler invocations of the last checkMessages, in order
    history,           \* what this run records: "off", "ops" (lastOp), "fed" (both)
    lastOp,            \* the last operation: its name, host, number and result
    fed,               \* the <<host, id>> passed to checkPacketIn so far, in order
    pc,                \* position of the driver script; 0 when no script runs
    mCircuitMutex,     \* LLCircuit: the thread that holds the mutex, 0 when free
    threads,           \* the threads inside LLCircuit: position, locals, results
    mMessageMutex,     \* LLMessageSystem: the thread that holds the mutex, 0 when free
    callers            \* the threads inside a public operation: the mutex steps ahead

vars == << mCircuitData, mTimeoutSeconds, mAllowTimeout, mMaxCircuits,
           mPacketsIn, mPacketsOut, mBytesIn, mBytesOut,
           mCurrentMessage, mSendBuffer, mHandlerMap,
           now, crashed, invoked, history, lastOp, fed, pc,
           mCircuitMutex, threads, mMessageMutex, callers >>

circuitVars == << mTimeoutSeconds, mAllowTimeout, mMaxCircuits >>
statVars    == << mPacketsIn, mPacketsOut, mBytesIn, mBytesOut >>
buildVars   == << mCurrentMessage, mSendBuffer >>

\* the threads that call LLCircuit
Threads == 1 .. NumThreads

\* a thread outside LLCircuit that has made no call yet
IdleThread ==
    [ pc |-> "idle", op |-> "none", host |-> 0, ptr |-> 0, stale |-> FALSE,
      uaf |-> FALSE, seq |-> 0, out |-> 0, calls |-> 0, returned |-> << >> ]

\* a thread that is in no public operation: no mutex step is ahead of it
IdleCaller == << >>

Op(name, host, id, result) ==
    [ op |-> name, host |-> host, id |-> id, result |-> result ]

\* an operation has run: record it, and advance the driver script if one runs
Note(op) ==
    /\ lastOp' = IF history # "off" THEN op ELSE lastOp
    /\ pc' = IF pc = 0 THEN 0 ELSE pc + 1
    /\ history' = history
    /\ UNCHANGED << mCircuitMutex, threads, mMessageMutex, callers >>

\* LLMessageSystem::LLMessageSystem and LLCircuit::LLCircuit; rec is what the
\* run records and script the driver's starting position
Constructed(rec, script) ==
    /\ mCircuitData = << >>
    /\ mTimeoutSeconds = DefaultTimeoutSeconds
    /\ mAllowTimeout = TRUE
    /\ mMaxCircuits = DefaultMaxCircuits
    /\ mPacketsIn = 0
    /\ mPacketsOut = 0
    /\ mBytesIn = 0
    /\ mBytesOut = 0
    /\ mCurrentMessage = "none"
    /\ mSendBuffer = << >>
    /\ mHandlerMap = << >>
    /\ now = 0
    /\ crashed = FALSE
    /\ invoked = << >>
    /\ history = rec
    /\ lastOp = Op("init", 0, 0, 0)
    /\ fed = << >>
    /\ pc = script
    /\ mCircuitMutex = 0
    /\ threads = [ t \in Threads |-> IdleThread ]
    /\ mMessageMutex = 0
    /\ callers = [ t \in Threads |-> IdleCaller ]

Init == Constructed("off", 0)

(* ------------------------------- actions ------------------------------ *)

\* the clock advances
Tick(d) ==
    /\ ~ crashed
    /\ now + d <= MaxTime
    /\ now' = now + d
    /\ Note(Op("tick", 0, d, 0))
    /\ UNCHANGED << mCircuitData, circuitVars, statVars, buildVars, mHandlerMap,
                    crashed, invoked, fed >>

\* LLCircuit::setMaxCircuits
SetMaxCircuits(n) ==
    /\ ~ crashed
    /\ mMaxCircuits' = n
    /\ Note(Op("setMaxCircuits", 0, n, 0))
    /\ UNCHANGED << mCircuitData, mTimeoutSeconds, mAllowTimeout, statVars, buildVars,
                    mHandlerMap, now, crashed, invoked, fed >>

\* LLCircuit::setTimeoutSeconds
SetTimeoutSeconds(timeout) ==
    /\ ~ crashed
    /\ mTimeoutSeconds' = timeout
    /\ Note(Op("setTimeoutSeconds", 0, timeout, 0))
    /\ UNCHANGED << mCircuitData, mAllowTimeout, mMaxCircuits, statVars, buildVars,
                    mHandlerMap, now, crashed, invoked, fed >>

\* LLCircuit::addCircuit
AddCircuit(h) ==
    /\ ~ crashed
    /\ mCircuitData' = addCircuit(mCircuitData, h, mMaxCircuits, now)
    /\ Note(Op("addCircuit", h, 0,
                    IF addCircuit_ok(mCircuitData, mMaxCircuits) THEN 1 ELSE 0))
    /\ UNCHANGED << circuitVars, statVars, buildVars, mHandlerMap, now, crashed, invoked, fed >>

\* LLCircuit::removeCircuit
RemoveCircuit(h) ==
    /\ ~ crashed
    /\ mCircuitData' = removeCircuit(mCircuitData, h)
    /\ Note(Op("removeCircuit", h, 0, 0))
    /\ UNCHANGED << circuitVars, statVars, buildVars, mHandlerMap, now, crashed, invoked, fed >>

\* the circuit of h may hand out one more sequence number within the bounds
MaySend(h) ==
    h \in DOMAIN mCircuitData => mCircuitData[h].mNextOutgoingSequence < MaxSeq

\* LLCircuit::nextPacketID
NextPacketIDCall(h) ==
    /\ ~ crashed
    /\ mCircuitData' = LLCircuit_nextPacketID(mCircuitData, h, mMaxCircuits, now)
    /\ Note(Op("nextPacketID", h, 0,
                    LLCircuit_nextPacketID_result(mCircuitData, h, mMaxCircuits, now)))
    /\ UNCHANGED << circuitVars, statVars, buildVars, mHandlerMap, now, crashed, invoked, fed >>

\* LLCircuit::nextPacketID while the circuit's sequence numbers are below MaxSeq
NextPacketID(h) == MaySend(h) /\ NextPacketIDCall(h)

\* LLCircuit::checkPacketIn
CheckPacketIn(h, id, ub) ==
    /\ ~ crashed
    /\ h \in DOMAIN mCircuitData => mCircuitData[h].mPacketsIn < MaxIn
    /\ mCircuitData' = LLCircuit_checkPacketIn(mCircuitData, h, id, mMaxCircuits, now, ub)
    /\ crashed' = ( /\ ub = "trap"
                    /\ LET tbl1 == findOrAddCircuit(mCircuitData, h, mMaxCircuits, now)
                       IN  /\ findCircuit(tbl1, h)
                           /\ checkPacketInID_divzero(tbl1[h], id, now) )
    /\ Note(Op("checkPacketIn", h, id, 0))
    /\ fed' = IF history = "fed" THEN Append(fed, << h, id >>) ELSE fed
    /\ UNCHANGED << circuitVars, statVars, buildVars, mHandlerMap, now, invoked >>

\* LLCircuit::ackReliablePacket
AckReliablePacket(h, id) ==
    /\ ~ crashed
    /\ mCircuitData' = LLCircuit_ackReliablePacket(mCircuitData, h, id, now)
    /\ Note(Op("ackReliablePacket", h, id, 0))
    /\ UNCHANGED << circuitVars, statVars, buildVars, mHandlerMap, now, crashed, invoked, fed >>

\* LLCircuit::addReliablePacket with a packet buffer that was sent retries
\* times before
AddReliablePacket(h, id, retries) ==
    /\ ~ crashed
    /\ mCircuitData' = LLCircuit_addReliablePacket(mCircuitData, h, id,
                           PacketBuffer(id, 0, retries, << >>), mMaxCircuits, now)
    /\ Note(Op("addReliablePacket", h, id, retries))
    /\ UNCHANGED << circuitVars, statVars, buildVars, mHandlerMap, now, crashed, invoked, fed >>

\* LLCircuit::checkForTimeouts
CheckForTimeouts ==
    /\ ~ crashed
    /\ mCircuitData' =
           LLCircuit_checkForTimeouts(mCircuitData, mAllowTimeout, mTimeoutSeconds, now)
    /\ Note(Op("checkForTimeouts", 0, 0, 0))
    /\ UNCHANGED << circuitVars, statVars, buildVars, mHandlerMap, now, crashed, invoked, fed >>

\* LLCircuit::processRetries
ProcessRetries ==
    /\ ~ crashed
    /\ mCircuitData' = LLCircuit_processRetries(mCircuitData)
    /\ Note(Op("processRetries", 0, 0, 0))
    /\ UNCHANGED << circuitVars, statVars, buildVars, mHandlerMap, now, crashed, invoked, fed >>


\* LLMessageSystem::newMessage
NewMessage(msgname) ==
    /\ ~ crashed
    /\ IF msgname \in TemplateNames
       THEN /\ mCurrentMessage' = msgname
            /\ mSendBuffer' = addMessageHeader(msgname)
            /\ Note(Op("newMessage", 0, 0, 1))
       ELSE /\ UNCHANGED buildVars
            /\ Note(Op("newMessage", 0, 0, 0))
    /\ UNCHANGED << mCircuitData, circuitVars, statVars, mHandlerMap, now, crashed, invoked, fed >>

\* a sendUDP that reports the whole size whatever the transport did
sendUDP_blind(size, transport_ok) == size

\* LLMessageSystem::sendUDP: the bytes sent, by whether the transport took them
sendUDP(size, transport_ok) == IF transport_ok THEN size ELSE 0

\* a sendMessage that consults the throttle before it takes a sequence number
SendMessage_throttleFirst(host, checkOverflow, transport_ok) ==
    /\ ~ crashed
    /\ MaySend(host)
    /\ mPacketsOut < MaxSent
    /\ IF mSendBuffer = << >> \/ ~ checkOverflow
       THEN /\ UNCHANGED << mCircuitData, mPacketsOut, mBytesOut >>
            /\ Note(Op("sendMessage", host, 0, 0))
       ELSE LET packet_id == LLCircuit_nextPacketID_result(mCircuitData, host,
                                                          mMaxCircuits, now)
                tbl1 == LLCircuit_nextPacketID(mCircuitData, host, mMaxCircuits, now)
                bytes_sent == sendUDP(Len(mSendBuffer), transport_ok)
            IN  /\ Note(Op("sendMessage", host, packet_id, bytes_sent))
                /\ IF bytes_sent > 0
                   THEN /\ mPacketsOut' = U32(mPacketsOut + 1)
                        /\ mBytesOut' = U32(mBytesOut + bytes_sent)
                        /\ mCircuitData' =
                             IF /\ mCurrentMessage # "none"
                                /\ TemplateByName(mCurrentMessage).reliable
                             THEN LLCircuit_addReliablePacket(tbl1, host, packet_id,
                                      PacketBuffer(0, 0, 0, mSendBuffer),
                                      mMaxCircuits, now)
                             ELSE tbl1
                   ELSE /\ mCircuitData' = tbl1
                        /\ UNCHANGED << mPacketsOut, mBytesOut >>
    /\ UNCHANGED << circuitVars, mPacketsIn, mBytesIn, buildVars, mHandlerMap,
                    now, crashed, invoked, fed >>

\* LLMessageSystem::sendMessage; checkOverflow is what the throttle answers,
\* transport_ok whether the transport takes the datagram
SendMessage(host, checkOverflow, transport_ok) ==
    /\ ~ crashed
    /\ MaySend(host)
    /\ mPacketsOut < MaxSent
    /\ IF mSendBuffer = << >>
       THEN /\ UNCHANGED << mCircuitData, mPacketsOut, mBytesOut >>
            /\ Note(Op("sendMessage", host, 0, 0))
       ELSE LET packet_id == LLCircuit_nextPacketID_result(mCircuitData, host,
                                                          mMaxCircuits, now)
                tbl1 == LLCircuit_nextPacketID(mCircuitData, host, mMaxCircuits, now)
                bytes_sent == sendUDP(Len(mSendBuffer), transport_ok)
            IN  IF ~ checkOverflow
                THEN /\ mCircuitData' = tbl1
                     /\ UNCHANGED << mPacketsOut, mBytesOut >>
                     /\ Note(Op("sendMessage", host, packet_id, 0))
                ELSE /\ Note(Op("sendMessage", host, packet_id, bytes_sent))
                     /\ IF bytes_sent > 0
                        THEN /\ mPacketsOut' = U32(mPacketsOut + 1)
                             /\ mBytesOut' = U32(mBytesOut + bytes_sent)
                             /\ mCircuitData' =
                                  IF /\ mCurrentMessage # "none"
                                     /\ TemplateByName(mCurrentMessage).reliable
                                  THEN LLCircuit_addReliablePacket(tbl1, host, packet_id,
                                           PacketBuffer(0, 0, 0, mSendBuffer),
                                           mMaxCircuits, now)
                                  ELSE tbl1
                        ELSE /\ mCircuitData' = tbl1
                             /\ UNCHANGED << mPacketsOut, mBytesOut >>
    /\ UNCHANGED << circuitVars, mPacketsIn, mBytesIn, buildVars, mHandlerMap,
                    now, crashed, invoked, fed >>

\* LLMessageSystem::checkMessages; batch is what the transport holds, each
\* datagram a record [sender, data] with at least one byte; an exception that
\* leaves a handler leaves checkMessages before the sweep (result -1)
CheckMessages(batch, junk) ==
    /\ ~ crashed
    /\ mPacketsIn + Len(batch) <= MaxReceived
    /\ \E r \in { processAll(mCircuitData, batch, mHandlerMap, mMaxCircuits, now, junk) } :
           /\ mCircuitData' =
                 IF r.threw THEN r.table
                 ELSE LLCircuit_checkForTimeouts(r.table, mAllowTimeout,
                                                 mTimeoutSeconds, now)
           /\ invoked' = r.invoked
           /\ Note(Op("checkMessages", 0, Len(batch),
                      IF r.threw THEN 0 - 1 ELSE r.failed))
           /\ mPacketsIn' = U32(mPacketsIn + r.received)
           /\ mBytesIn' = U32(mBytesIn + BatchBytes(SubSeq(batch, 1, r.received)))
    /\ UNCHANGED << circuitVars, mPacketsOut, mBytesOut, buildVars, mHandlerMap,
                    now, crashed, fed >>

\* LLMessageSystem::setHandlerFunc
SetHandlerFunc(msgname, handler) ==
    /\ ~ crashed
    /\ Len(InvokedHandlers(mHandlerMap, msgname)) < MaxHandlers
    /\ mHandlerMap' = [n \in DOMAIN mHandlerMap \cup {msgname} |->
                          IF n = msgname
                          THEN Append(InvokedHandlers(mHandlerMap, msgname), handler)
                          ELSE mHandlerMap[n]]
    /\ Note(Op("setHandlerFunc", 0, handler, 0))
    /\ UNCHANGED << mCircuitData, circuitVars, statVars, buildVars, now, crashed, invoked, fed >>

(* --------------------------- the whole system ------------------------- *)

\* sequences of at most n elements of S
SeqsUpTo(S, n) == UNION { [1 .. k -> S] : k \in 0 .. n }

\* the message names the application builds: a reliable template, an
\* unreliable one, and a name that is no template
BuiltNames == { "StartPingCheck", "ChatFromSimulator", "NoSuchMessage" }

\* the datagrams a peer sends: CompletePingCheck with or without the reliable
\* flag, acknowledging sequence 0; an unknown message number; a datagram
\* shorter than a header
PeerDatagrams ==
    { PeerDatagram(f, s, 2, << 0 >>) : f \in { 0, LL_RELIABLE_FLAG }, s \in 0 .. MaxSeq - 1 }
      \cup { PeerDatagram(0, 0, 200, << >>), << 0, 0, 0 >> }

ReceivedFrom(hosts) == { [ sender |-> h, data |-> d ] : h \in hosts, d \in PeerDatagrams }

\* the reliability layer towards one peer: the message system drives the
\* circuit of host 1, the application acknowledges, sweeps and retries
Next ==
    \/ now + TickShort <= SystemTime /\ Tick(TickShort)
    \/ RemoveCircuit(1)
    \/ \E id \in 0 .. MaxSeq - 1 : AckReliablePacket(1, id)
    \/ CheckForTimeouts
    \/ ProcessRetries
    \/ \E n \in BuiltNames : NewMessage(n)
    \/ \E o \in BOOLEAN, k \in BOOLEAN : SendMessage(1, o, k)
    \/ \E b \in SeqsUpTo(ReceivedFrom({ 1 }), MaxBatch) : CheckMessages(b, 0)

Spec == Init /\ [][Next]_vars

(* ------------------------ claims: reliability ------------------------- *)

\* the sequence numbers a circuit still tracks: unacked or waiting for retry
Tracked(c) == UnackedKeys(c) \cup RetrySeqs(c)

\* the hosts that have a circuit before and after the step
Staying == DOMAIN mCircuitData \cap DOMAIN mCircuitData'

\* C1: in every reachable state, every key of every circuit's unacked map is
\* smaller than that circuit's next outbound sequence number
C1_UnackedBelowNextOutgoing ==
    \A h \in DOMAIN mCircuitData :
        \A k \in UnackedKeys(mCircuitData[h]) :
            k < mCircuitData[h].mNextOutgoingSequence

\* C2: a packet the circuit sent leaves the unacked map and the retry queue
\* of a circuit that stays in the table only by being acknowledged, or by
\* being given up and counted once in that circuit's packets_lost
C2_ResolvedByAckOrLoss ==
    [][ \A h \in Staying :
          LET c    == mCircuitData[h]
              gone == { s \in Tracked(c) \ Tracked(mCircuitData'[h]) :
                          s < c.mNextOutgoingSequence }
          IN  gone # {} =>
                \/ \E s \in gone : gone = { s } /\ AckReliablePacket(h, s)
                \/ mCircuitData'[h].mPacketsLost
                     = U32(c.mPacketsLost + Cardinality(gone)) ]_vars

\* C3: processRetries puts every packet of a retry queue that the circuit
\* sent back into the unacked map under its sequence number, with its retry
\* count and a fresh send time
C3_RetriesReinstalled ==
    [][ ProcessRetries =>
          \A h \in DOMAIN mCircuitData :
            \A i \in 1 .. Len(mCircuitData[h].mRetryQueue) :
              LET p == mCircuitData[h].mRetryQueue[i]
              IN  p.sequence < mCircuitData[h].mNextOutgoingSequence =>
                  /\ h \in DOMAIN mCircuitData'
                  /\ p.sequence \in UnackedKeys(mCircuitData'[h])
                  /\ mCircuitData'[h].mUnackedPackets[p.sequence]
                       = [ p EXCEPT !.sentTime = now ] ]_vars

\* C6: after ackReliablePacket(s) on a circuit, s is no key of its unacked
\* map and every other entry of the map is as before
C6_AckRemovesOnlyThatKey ==
    [][ \A h \in Hosts, s \in 0 .. MaxSeq - 1 :
          AckReliablePacket(h, s) /\ h \in DOMAIN mCircuitData =>
            /\ h \in DOMAIN mCircuitData'
            /\ s \notin UnackedKeys(mCircuitData'[h])
            /\ UnackedKeys(mCircuitData'[h]) = UnackedKeys(mCircuitData[h]) \ { s }
            /\ \A k \in UnackedKeys(mCircuitData'[h]) :
                 mCircuitData'[h].mUnackedPackets[k] = mCircuitData[h].mUnackedPackets[k] ]_vars

\* C6 witness: packets 0 and 1 were sent reliably, 0 was acknowledged six
\* seconds after it was sent, and 1 is still unacked
C6_Witness ==
    \E h \in DOMAIN mCircuitData :
        /\ mCircuitData[h].mNextOutgoingSequence = 2
        /\ mCircuitData[h].mPingDelay = TickShort
        /\ UnackedKeys(mCircuitData[h]) = { 1 }
        /\ mCircuitData[h].mRetryQueue = << >>

\* the state of a circuit after one reliable StartPingCheck was sent on it
PingSent(c) ==
    /\ c.mNextOutgoingSequence = 1
    /\ c.mPacketsOut = 1
    /\ c.mPacketsIn = 0
    /\ UnackedKeys(c) = { 0 }
    /\ c.mUnackedPackets[0].data = addMessageHeader("StartPingCheck")
    /\ c.mRetryQueue = << >>

\* C7: after a reliable message with sequence 0 was sent to H and one
\* checkMessages received from H a CompletePingCheck that acknowledges
\* sequence 0, H's circuit has nothing unacked, one packet in, one packet
\* out, and is alive
C7_PingRoundTrip ==
    [][ \A h \in Hosts, f \in { 0, LL_RELIABLE_FLAG } :
          /\ h \in DOMAIN mCircuitData
          /\ PingSent(mCircuitData[h])
          /\ CheckMessages(<< [ sender |-> h,
                                data |-> PeerDatagram(f, 0, 2, << 0 >>) ] >>, 0)
          => /\ h \in DOMAIN mCircuitData'
             /\ UnackedKeys(mCircuitData'[h]) = {}
             /\ mCircuitData'[h].mPacketsIn = 1
             /\ mCircuitData'[h].mPacketsOut = 1
             /\ mCircuitData'[h].mAlive ]_vars

(* --------------------- scenario: giving up a packet ------------------- *)

ReliableNames == { t.name : t \in { u \in MessageTemplates : u.reliable } }

\* the driver of the give-up scenario: build and send one reliable message to
\* a host, then three rounds of: let the timeout pass, sweep, process retries
\* (the peer never answers and the transport drops whatever it is given)
GiveUpDone == 3 + 3 * GiveUpRetries

GiveUpNext ==
    \/ pc = 1 /\ \E n \in ReliableNames : NewMessage(n)
    \/ pc = 2 /\ \E h \in Hosts : SendMessage(h, TRUE, TRUE)
    \/ pc \in 3 .. GiveUpDone - 1 /\ pc % 3 = 0 /\ Tick(TickShort)
    \/ pc \in 3 .. GiveUpDone - 1 /\ pc % 3 = 1 /\ CheckForTimeouts
    \/ pc \in 3 .. GiveUpDone - 1 /\ pc % 3 = 2 /\ ProcessRetries

SpecGiveUp == Constructed("off", 1) /\ [][GiveUpNext]_vars

\* C4: when the give-up scenario is over, the packet is in neither the
\* unacked map nor the retry queue of its circuit and the circuit's
\* packets_lost is one
C4_GivenUpAfterThreeSweeps ==
    pc = GiveUpDone =>
        /\ DOMAIN mCircuitData # {}
        /\ \A h \in DOMAIN mCircuitData :
             /\ Tracked(mCircuitData[h]) = {}
             /\ mCircuitData[h].mPacketsLost = 1

(* ------------------------ the timeout sweep --------------------------- *)

\* one circuit under LLCircuit's own interface: packet buffers that were
\* never sent before, or sent GiveUpRetries - 1 times before, are installed,
\* the timeout passes once, the timeout is set, the table is swept and the
\* retry queues are processed
SweepNext ==
    \/ \E id \in 0 .. MaxSeq, r \in { 0, GiveUpRetries - 1 } : AddReliablePacket(1, id, r)
    \/ now < TickShort /\ Tick(TickShort)
    \/ \E t \in { DefaultTimeoutSeconds, TickShort } : SetTimeoutSeconds(t)
    \/ CheckForTimeouts
    \/ ProcessRetries

SpecSweep == Constructed("ops", 0) /\ [][SweepNext]_vars

\* C5: one sweep of a circuit with timeout t moves every unacked entry with
\* now - sent_time > t to the retry queue with its retry count incremented
\* when the new count is below 3, and drops it and counts it in packets_lost
\* otherwise; every other entry stays in the unacked map unchanged
C5_SweepOutcome ==
    [][ CheckForTimeouts /\ mAllowTimeout =>
          \A h \in Staying :
            LET c          == mCircuitData[h]
                d          == mCircuitData'[h]
                late       == { k \in UnackedKeys(c) :
                                  now - c.mUnackedPackets[k].sentTime > mTimeoutSeconds }
                after(k)   == [ c.mUnackedPackets[k] EXCEPT !.retryCount = @ + 1 ]
                retried    == { k \in late : after(k).retryCount < GiveUpRetries }
                added      == { d.mRetryQueue[i] :
                                  i \in Len(c.mRetryQueue) + 1 .. Len(d.mRetryQueue) }
            IN  /\ UnackedKeys(d) = UnackedKeys(c) \ late
                /\ \A k \in UnackedKeys(d) : d.mUnackedPackets[k] = c.mUnackedPackets[k]
                /\ Len(d.mRetryQueue) = Len(c.mRetryQueue) + Cardinality(retried)
                /\ SubSeq(d.mRetryQueue, 1, Len(c.mRetryQueue)) = c.mRetryQueue
                /\ added = { after(k) : k \in retried }
                /\ d.mPacketsLost = U32(c.mPacketsLost + Cardinality(late \ retried)) ]_vars

\* C5 witness: a sweep has run on a circuit that by now has one packet in the
\* retry queue with retry count 1, has given up one packet, and keeps in its
\* unacked map an entry that is not older than the timeout
C5_Witness ==
    /\ lastOp.op = "checkForTimeouts"
    /\ \E h \in DOMAIN mCircuitData :
         /\ Len(mCircuitData[h].mRetryQueue) = 1
         /\ mCircuitData[h].mRetryQueue[1].retryCount = 1
         /\ mCircuitData[h].mPacketsLost = 1
         /\ \E k \in UnackedKeys(mCircuitData[h]) :
              now - mCircuitData[h].mUnackedPackets[k].sentTime <= mTimeoutSeconds

(* --------------------------- handler dispatch ------------------------- *)

\* handlers are registered for CompletePingCheck, the application classifies
\* inbound sequence numbers of host 1 through LLCircuit::checkPacketIn, and
\* checkMessages receives datagrams from host 1
DispatchNext ==
    \/ \E f \in 1 .. MaxHandlers : SetHandlerFunc("CompletePingCheck", f)
    \/ \E id \in 0 .. MaxSeq - 1, ub \in DivByZeroOutcomes : CheckPacketIn(1, id, ub)
    \/ \E b \in SeqsUpTo(ReceivedFrom({ 1 }), MaxBatch) : CheckMessages(b, 0)

SpecDispatch == Init /\ [][DispatchNext]_vars

\* the expected inbound sequence of a host before the step (0 without circuit)
ExpectedInbound(h) ==
    IF h \in DOMAIN mCircuitData THEN mCircuitData[h].mNextIncomingSequence ELSE 0

\* C8: a checkMessages invokes no handler for a datagram whose sequence is
\* below the expected inbound sequence of its sender's circuit, and none for
\* a second delivery of a sequence number of the same sender in the same poll
C8_NoHandlerForDuplicates ==
    [][ \A b \in SeqsUpTo(ReceivedFrom(Hosts), MaxBatch) :
          CheckMessages(b, 0) =>
            /\ \A i \in 1 .. Len(invoked') :
                 ~ (invoked'[i].sequence < ExpectedInbound(invoked'[i].sender))
            /\ \A i, j \in 1 .. Len(invoked') :
                 ( /\ i < j
                   /\ invoked'[i].sender = invoked'[j].sender
                   /\ invoked'[i].sequence = invoked'[j].sequence )
                 => invoked'[i].handler # invoked'[j].handler ]_vars

(* ------------------------ inbound classification ---------------------- *)

\* the sequence numbers fed to checkPacketIn: the small ones and the largest
InboundIds == 0 .. MaxInId \cup { Modulus - 1 }

\* the application feeds inbound sequence numbers of host 1 to the table
InboundNext ==
    \E id \in InboundIds, ub \in DivByZeroOutcomes : CheckPacketIn(1, id, ub)

SpecInbound == Constructed("fed", 0) /\ [][InboundNext]_vars

\* C9: checkPacketIn(id) on a circuit with expected inbound sequence e
\* returns with packets_in grown by one and: id > e, packets_lost grown by
\* id - e and expected id + 1; id = e, expected e + 1 and packets_lost as
\* before; id < e, both as before (all modulo 2^CounterBits); and feeding
\* 0, 1, 2, 2, 4 to a fresh circuit leaves packets_lost 1, expected 5 and
\* packets_in 5
C9_InboundClassification ==
    /\ [][ \A h \in Hosts, id \in InboundIds, ub \in DivByZeroOutcomes :
            CheckPacketIn(h, id, ub) =>
              LET c == IF h \in DOMAIN mCircuitData
                       THEN mCircuitData[h] ELSE NewCircuitData(now)
                  e == c.mNextIncomingSequence
              IN  /\ ~ crashed'
                  /\ h \in DOMAIN mCircuitData'
                  /\ mCircuitData'[h].mPacketsIn = U32(c.mPacketsIn + 1)
                  /\ id > e =>
                       /\ mCircuitData'[h].mPacketsLost = U32(c.mPacketsLost + (id - e))
                       /\ mCircuitData'[h].mNextIncomingSequence = U32(id + 1)
                  /\ id = e =>
                       /\ mCircuitData'[h].mPacketsLost = c.mPacketsLost
                       /\ mCircuitData'[h].mNextIncomingSequence = U32(e + 1)
                  /\ id < e =>
                       /\ mCircuitData'[h].mPacketsLost = c.mPacketsLost
                       /\ mCircuitData'[h].mNextIncomingSequence = e ]_vars
    /\ [] ( \A h \in Hosts :
              fed = << << h, 0 >>, << h, 1 >>, << h, 2 >>, << h, 2 >>, << h, 4 >> >>
              => /\ h \in DOMAIN mCircuitData
                 /\ mCircuitData[h].mPacketsLost = 1
                 /\ mCircuitData[h].mNextIncomingSequence = 5
                 /\ mCircuitData[h].mPacketsIn = 5 )

(* --------------------------- the circuit table ------------------------ *)

\* the table under LLCircuit's own interface: the capacity is set, circuits
\* are added and removed, and hosts that have no circuit are referred to by
\* the operations that create a circuit on demand
TableNext ==
    \/ \E n \in 1 .. NumHosts : SetMaxCircuits(n)
    \/ \E h \in Hosts : AddCircuit(h)
    \/ \E h \in Hosts : RemoveCircuit(h)
    \/ \E h \in Hosts \ DOMAIN mCircuitData : NextPacketID(h)
    \/ \E h \in Hosts \ DOMAIN mCircuitData, id \in 0 .. MaxSeq - 1, ub \in DivByZeroOutcomes :
          CheckPacketIn(h, id, ub)
    \/ \E h \in Hosts \ DOMAIN mCircuitData, id \in 0 .. MaxSeq - 1 :
          AddReliablePacket(h, id, 0)

SpecTable == Constructed("ops", 0) /\ [][TableNext]_vars

\* the table holds mMaxCircuits hosts and h is none of them
FullWithout(h) ==
    /\ Cardinality(DOMAIN mCircuitData) >= mMaxCircuits
    /\ h \notin DOMAIN mCircuitData

\* C10: when the table holds max_circuits hosts, addCircuit, nextPacketID,
\* checkPacketIn and addReliablePacket for a further host leave the table
\* and every circuit in it as they were; addCircuit returns no circuit and
\* nextPacketID returns 0
C10_FullTableUnchanged ==
    [][ \A h \in Hosts :
          /\ FullWithout(h)
          /\ \/ AddCircuit(h)
             \/ NextPacketID(h)
             \/ \E id \in 0 .. MaxSeq - 1, ub \in DivByZeroOutcomes : CheckPacketIn(h, id, ub)
             \/ \E id \in 0 .. MaxSeq - 1 : AddReliablePacket(h, id, 0)
          => /\ mCircuitData' = mCircuitData
             /\ lastOp'.op \in { "addCircuit", "nextPacketID" } => lastOp'.result = 0
             /\ ~ crashed' ]_vars

\* C10 witness: an addCircuit for a further host has just failed on a full
\* table that holds a circuit with an unacknowledged packet
C10_Witness ==
    /\ lastOp.op = "addCircuit"
    /\ lastOp.result = 0
    /\ lastOp.host \notin DOMAIN mCircuitData
    /\ Cardinality(DOMAIN mCircuitData) = mMaxCircuits
    /\ \E g \in DOMAIN mCircuitData : UnackedKeys(mCircuitData[g]) # {}

(* ------------------------ reaping dead circuits ----------------------- *)

\* how long the driver lets the clock run between two operations
IdleTimes == { CircuitDeadSeconds \div 2, CircuitDeadSeconds, CircuitDeadSeconds + 1 }

\* well-formed CompletePingCheck datagrams, with and without the reliable flag
ReapDatagrams == { PeerDatagram(f, 0, 2, << >>) : f \in { 0, LL_RELIABLE_FLAG } }

\* the driver of the reaping scenario: a message is built and sent to a host,
\* time passes, then nothing arrives, or checkMessages receives one datagram
\* from that host, or the application classifies an inbound sequence number
\* of that host; time passes again and the table is swept
ReapNext ==
    \/ pc = 1 /\ \E n \in BuiltNames : NewMessage(n)
    \/ pc = 2 /\ \E h \in Hosts : SendMessage(h, TRUE, TRUE)
    \/ pc \in { 3, 5 } /\ \E d \in IdleTimes : Tick(d)
    \/ pc = 4 /\ CheckMessages(<< >>, 0)
    \/ pc = 4 /\ \E h \in DOMAIN mCircuitData, d \in ReapDatagrams :
                    CheckMessages(<< [ sender |-> h, data |-> d ] >>, 0)
    \/ pc = 4 /\ \E h \in DOMAIN mCircuitData, ub \in DivByZeroOutcomes :
                    CheckPacketIn(h, 0, ub)
    \/ pc = 6 /\ CheckForTimeouts

SpecReap == Constructed("ops", 1) /\ [][ReapNext]_vars

\* in the reaping scenario, before the final sweep: the seconds since the
\* last inbound traffic of the circuits (all were created at time 0, and the
\* last tick is the time since the fourth step)
ReapIdle ==
    IF mPacketsIn > 0 \/ \E h \in DOMAIN mCircuitData : mCircuitData[h].mPacketsIn > 0
    THEN lastOp.id
    ELSE now

\* C11: the table sweep removes a circuit that was created by sending and
\* has been more than 60 seconds without inbound traffic, so that findCircuit
\* finds nothing afterwards, and it removes no circuit whose last inbound
\* datagram is at most 60 seconds old
C11_DeadCircuitsReaped ==
    [][ CheckForTimeouts =>
          \A h \in DOMAIN mCircuitData :
            /\ ReapIdle > CircuitDeadSeconds => ~ findCircuit(mCircuitData', h)
            /\ ReapIdle <= CircuitDeadSeconds => findCircuit(mCircuitData', h) ]_vars

(* ------------------------ outbound sequence numbers ------------------- *)

\* circuits are added and removed and sequence numbers are drawn from them,
\* as often as it takes for the counters to wrap
SequenceNext ==
    \/ \E h \in Hosts : AddCircuit(h)
    \/ \E h \in Hosts : RemoveCircuit(h)
    \/ \E h \in Hosts : NextPacketIDCall(h)

SpecSequence == Constructed("ops", 0) /\ [][SequenceNext]_vars

threadFrame ==
    UNCHANGED << circuitVars, statVars, buildVars, mHandlerMap, now, invoked,
                 history, lastOp, fed, pc, mMessageMutex, callers >>

\* the threads whose circuit pointer refers to the circuit of host h, which
\* the step of thread t destroys: their pointers dangle from now on
Invalidate(t, h, destroyed) ==
    [ u \in Threads |->
        IF u # t /\ destroyed /\ threads[u].ptr = h
        THEN [ threads[u] EXCEPT !.stale = TRUE ]
        ELSE threads[u] ]

\* a thread calls nextPacketID(h) or removeCircuit(h)
Call(t, op, h) ==
    /\ ~ crashed
    /\ threads[t].pc = "idle"
    /\ threads[t].calls < MaxCalls
    /\ threads' = [ threads EXCEPT ![t] =
                      [ @ EXCEPT !.pc = IF op = "nextPacketID" THEN "find_lock"
                                                              ELSE "remove_lock",
                                 !.op = op, !.host = h, !.ptr = 0, !.stale = FALSE,
                                 !.calls = @ + 1 ] ]
    /\ UNCHANGED << mCircuitData, mCircuitMutex, crashed >>
    /\ threadFrame

\* std::lock_guard<std::mutex> lock(mCircuitMutex) in findCircuit, addCircuit
\* and removeCircuit
Lock(t) ==
    /\ ~ crashed
    /\ threads[t].pc \in { "find_lock", "add_lock", "remove_lock" }
    /\ mCircuitMutex = 0
    /\ mCircuitMutex' = t
    /\ threads' = [ threads EXCEPT ![t].pc =
                      CASE @ = "find_lock" -> "find"
                        [] @ = "add_lock" -> "add"
                        [] OTHER -> "remove" ]
    /\ UNCHANGED << mCircuitData, crashed >>
    /\ threadFrame

\* LLCircuit::findCircuit as called by nextPacketID: the lookup, and the
\* release of the mutex on return
FindCircuitBody(t) ==
    /\ ~ crashed
    /\ threads[t].pc = "find"
    /\ mCircuitMutex' = 0
    /\ threads' = [ threads EXCEPT ![t] =
                      IF findCircuit(mCircuitData, threads[t].host)
                      THEN [ @ EXCEPT !.pc = "use", !.ptr = threads[t].host ]
                      ELSE [ @ EXCEPT !.pc = "add_lock" ] ]
    /\ UNCHANGED << mCircuitData, crashed >>
    /\ threadFrame

\* LLCircuit::addCircuit as called by nextPacketID; a circuit the host
\* already has by now is replaced, and destroyed
AddCircuitBody(t) ==
    /\ ~ crashed
    /\ threads[t].pc = "add"
    /\ LET h  == threads[t].host
           ok == addCircuit_ok(mCircuitData, mMaxCircuits)
           th == Invalidate(t, h, ok /\ h \in DOMAIN mCircuitData)
       IN  /\ mCircuitData' = addCircuit(mCircuitData, h, mMaxCircuits, now)
           /\ threads' = [ th EXCEPT ![t] =
                             IF ok
                             THEN [ @ EXCEPT !.pc = "use", !.ptr = h ]
                             ELSE [ @ EXCEPT !.pc = "idle",
                                             !.returned = Append(@, << h, 0 >>) ] ]
    /\ mCircuitMutex' = 0
    /\ UNCHANGED crashed
    /\ threadFrame

\* LLCircuitData::nextPacketOutID through the pointer, without the mutex: the
\* counters are read; through a dangling pointer the read traps or yields
\* whatever the memory holds
ReadCounters(t) ==
    /\ ~ crashed
    /\ threads[t].pc = "use"
    /\ IF threads[t].stale
       THEN \/ /\ crashed' = TRUE
               /\ threads' = [ threads EXCEPT ![t].uaf = TRUE ]
            \/ /\ crashed' = FALSE
               /\ \E v \in 0 .. Modulus - 1 :
                    threads' = [ threads EXCEPT ![t] =
                                  [ @ EXCEPT !.pc = "use2", !.uaf = TRUE,
                                             !.seq = v, !.out = v ] ]
       ELSE /\ crashed' = FALSE
            /\ threads' = [ threads EXCEPT ![t] =
                  [ @ EXCEPT !.pc = "use2",
                             !.seq = mCircuitData[threads[t].ptr].mNextOutgoingSequence,
                             !.out = mCircuitData[threads[t].ptr].mPacketsOut ] ]
    /\ UNCHANGED << mCircuitData, mCircuitMutex >>
    /\ threadFrame

\* LLCircuitData::nextPacketOutID, continued: the incremented counters are
\* written back and the sequence number read is returned; through a dangling
\* pointer the write reaches no circuit of the table
WriteCounters(t) ==
    /\ ~ crashed
    /\ threads[t].pc = "use2"
    /\ mCircuitData' =
          IF threads[t].stale THEN mCircuitData
          ELSE [ mCircuitData EXCEPT ![threads[t].ptr] =
                   [ @ EXCEPT !.mLastSendTime = now,
                              !.mPacketsOut = U32(threads[t].out + 1),
                              !.mNextOutgoingSequence = U32(threads[t].seq + 1) ] ]
    /\ threads' = [ threads EXCEPT ![t] =
                      [ @ EXCEPT !.pc = "idle",
                                 !.uaf = @ \/ threads[t].stale,
                                 !.returned = Append(@, << threads[t].host,
                                                           threads[t].seq >>) ] ]
    /\ UNCHANGED << mCircuitMutex, crashed >>
    /\ threadFrame

\* LLCircuit::removeCircuit under the mutex
RemoveCircuitBody(t) ==
    /\ ~ crashed
    /\ threads[t].pc = "remove"
    /\ LET h  == threads[t].host
           th == Invalidate(t, h, h \in DOMAIN mCircuitData)
       IN  /\ mCircuitData' = removeCircuit(mCircuitData, h)
           /\ threads' = [ th EXCEPT ![t].pc = "idle" ]
    /\ mCircuitMutex' = 0
    /\ UNCHANGED crashed
    /\ threadFrame

\* threads draw sequence numbers for the same or for different hosts
RaceNext ==
    \E t \in Threads :
        \/ \E h \in Hosts : Call(t, "nextPacketID", h)
        \/ Lock(t)
        \/ FindCircuitBody(t)
        \/ AddCircuitBody(t)
        \/ ReadCounters(t)
        \/ WriteCounters(t)

SpecRace == Init /\ [][RaceNext]_vars

\* the <<host, sequence number>> pairs the calls of thread t have returned
Returned(t) == threads[t].returned

\* how many calls for host h have returned, over all threads
RECURSIVE CountFor(_, _)
CountFor(q, h) ==
    IF q = << >> THEN 0
    ELSE (IF Head(q)[1] = h THEN 1 ELSE 0) + CountFor(Tail(q), h)

RECURSIVE ReturnedFor(_, _)
ReturnedFor(T, h) ==
    IF T = {} THEN 0
    ELSE LET t == CHOOSE x \in T : TRUE
         IN  CountFor(Returned(t), h) + ReturnedFor(T \ { t }, h)

\* C13: a thread inside a circuit operation holds mCircuitMutex; no two
\* nextPacketID calls for one host return the same sequence number; and when
\* no call is in flight every circuit has counted every call made for it
C13_MutexCoversCircuitAccess ==
    /\ \A t \in Threads : threads[t].pc = "use2" => mCircuitMutex = t
    /\ \A t, u \in Threads :
         \A i \in 1 .. Len(Returned(t)), j \in 1 .. Len(Returned(u)) :
            (t # u \/ i # j) => Returned(t)[i] # Returned(u)[j]
    /\ (\A t \in Threads : threads[t].pc = "idle") =>
         \A h \in DOMAIN mCircuitData :
            mCircuitData[h].mPacketsOut = ReturnedFor(Threads, h)

\* threads draw sequence numbers while other threads remove circuits
FreeNext ==
    \/ RaceNext
    \/ \E t \in Threads, h \in Hosts : Call(t, "removeCircuit", h)
    \/ \E t \in Threads : RemoveCircuitBody(t)

SpecFree == Init /\ [][FreeNext]_vars

\* C14: no thread has used a circuit pointer after the circuit it refers to
\* was erased from the table
C14_NoUseAfterErase ==
    \A t \in Threads : ~ threads[t].uaf

(* --------------------------- throttle admission ----------------------- *)

\* messages are built and sent over a transport that takes every datagram;
\* the throttle answers either way
ThrottleNext ==
    \/ \E n \in BuiltNames : NewMessage(n)
    \/ \E h \in Hosts, o \in BOOLEAN : SendMessage(h, o, TRUE)

SpecThrottle == Constructed("ops", 0) /\ [][ThrottleNext]_vars

\* C15: sendMessage of a built message hands the datagram to the transport
\* and returns the bytes sent when checkOverflow answers false, and transmits
\* nothing and returns 0 when checkOverflow answers true
C15_SentUnlessOverflow ==
    [][ \A h \in Hosts, o \in BOOLEAN :
          SendMessage(h, o, TRUE) /\ mSendBuffer # << >> =>
            IF o
            THEN /\ lastOp'.result = 0
                 /\ mPacketsOut' = mPacketsOut
                 /\ mBytesOut' = mBytesOut
            ELSE /\ lastOp'.result = Len(mSendBuffer)
                 /\ mPacketsOut' = U32(mPacketsOut + 1)
                 /\ mBytesOut' = U32(mBytesOut + Len(mSendBuffer)) ]_vars

(* ------------------------------ the builder --------------------------- *)

\* messages are built and sent; the throttle answers either way and the
\* transport takes the datagram or fails
BuilderNext ==
    \/ \E n \in BuiltNames : NewMessage(n)
    \/ \E h \in Hosts, o \in BOOLEAN, k \in BOOLEAN : SendMessage(h, o, k)

SpecBuilder == Constructed("ops", 0) /\ [][BuilderNext]_vars

\* the datagram sendMessage hands to sendUDP
SentDatagram == mSendBuffer

\* the step is a sendMessage to host h
Sending(h) == \E o \in BOOLEAN, k \in BOOLEAN : SendMessage(h, o, k)

\* C16: the datagram sendMessage transmits carries in bytes 1..4, least
\* significant first, the sequence number nextPacketID assigned to the send,
\* and a reliable message is in the unacked map under that number
C16_DatagramCarriesSequence ==
    [][ \A h \in Hosts :
          Sending(h) /\ lastOp'.result > 0 =>
            /\ SubSeq(SentDatagram, 2, 5) = LE32(lastOp'.id)
            /\ TemplateByName(mCurrentMessage).reliable =>
                  /\ h \in DOMAIN mCircuitData'
                  /\ lastOp'.id \in UnackedKeys(mCircuitData'[h]) ]_vars

\* C17: a newMessage that follows a successful newMessage with no
\* sendMessage in between is rejected and leaves the buffer and the current
\* template as they are
C17_SecondBuildRejected ==
    [][ \A n \in BuiltNames :
          /\ lastOp.op = "newMessage"
          /\ lastOp.result = 1
          /\ NewMessage(n)
          => /\ lastOp'.result = 0
             /\ UNCHANGED buildVars ]_vars

\* C18: a sendMessage that follows a sendMessage with no newMessage in
\* between transmits nothing and consumes no sequence number
C18_SendWithoutBuild ==
    [][ \A h \in Hosts :
          lastOp.op = "sendMessage" /\ Sending(h) =>
            /\ lastOp'.result = 0
            /\ UNCHANGED << mPacketsOut, mBytesOut, mCircuitData >> ]_vars

(* --------------------- invariants of the reliable state --------------- *)

\* C19: the cached oldest unacked sequence number of every circuit is the
\* smallest key of its unacked map whenever the map is not empty
C19_OldestIsSmallestKey ==
    \A h \in DOMAIN mCircuitData :
        UnackedKeys(mCircuitData[h]) # {} =>
            mCircuitData[h].mOldestUnackedPacket = Min(UnackedKeys(mCircuitData[h]))

\* the packet buffers a circuit holds, in the unacked map or the retry queue
HeldBuffers(c) ==
    { c.mUnackedPackets[k] : k \in UnackedKeys(c) }
      \cup { c.mRetryQueue[i] : i \in 1 .. Len(c.mRetryQueue) }

\* C20: every packet buffer in an unacked map or a retry queue has a retry
\* count below the give-up threshold
C20_RetryCountBelowThreshold ==
    \A h \in DOMAIN mCircuitData :
        \A p \in HeldBuffers(mCircuitData[h]) : p.retryCount < GiveUpRetries

\* C20 witness: a sweep has run on a circuit that has given up a packet at
\* the threshold and holds an unacked packet on its last retry
C20_Witness ==
    /\ lastOp.op = "checkForTimeouts"
    /\ \E h \in DOMAIN mCircuitData :
         /\ mCircuitData[h].mPacketsLost > 0
         /\ \E k \in UnackedKeys(mCircuitData[h]) :
              mCircuitData[h].mUnackedPackets[k].retryCount = GiveUpRetries - 1

(* ---------------------- the expected inbound sequence ----------------- *)

\* C21: the expected inbound sequence of a circuit never decreases, and after
\* checkPacketIn counted a sequence number as received in order or skipped
\* up to it as lost, the expected inbound sequence is greater than that
\* number; for every id of the counter's range, the largest included
C21_ExpectedAboveCounted ==
    [][ \A h \in Hosts, id \in InboundIds, ub \in DivByZeroOutcomes :
          CheckPacketIn(h, id, ub) /\ ~ crashed' =>
            /\ h \in DOMAIN mCircuitData'
            /\ mCircuitData'[h].mNextIncomingSequence >= ExpectedInbound(h)
            /\ id >= ExpectedInbound(h) =>
                  mCircuitData'[h].mNextIncomingSequence > id ]_vars

(* ------------------------- the message number field ------------------- *)

\* the message numbers a template is loaded with: those within OpcodeMargin
\* of the values at which the width of the field or its first bytes change,
\* the smallest, and two large ones
OpcodeMargin == 2
MaxPayload == 2

OpcodeSamples ==
    { t + d : t \in { 255, 256, 65280, 65536 }, d \in (0 - OpcodeMargin) .. OpcodeMargin }
      \cup { 0, 131072, 2147483647 }

\* the bytes the add* calls append, and the bytes the receive buffer holds
\* past the end of a datagram
PayloadBytes == { 0, 127 }
JunkBytes == { 0, 127 }

\* addMessageHeader for a template that loadMessageTemplate loaded with
\* number msgnum: the bytes appended
LoadedHeader(reliable, msgnum) ==
    HeaderBytes(IF reliable THEN LL_RELIABLE_FLAG ELSE 0, 0, msgnum)

\* loadMessageTemplate(name, msgnum, reliable), then newMessage(name)
BuildHeader(reliable, msgnum) ==
    /\ ~ crashed
    /\ mCurrentMessage' = "Loaded"
    /\ mSendBuffer' = LoadedHeader(reliable, msgnum)
    /\ Note(Op("newMessage", 0, msgnum, 1))
    /\ UNCHANGED << mCircuitData, circuitVars, statVars, mHandlerMap, now, crashed, invoked, fed >>

\* addVariableData of one byte, at most MaxPayload times for a message
AddVariableData(byte) ==
    /\ ~ crashed
    /\ \/ lastOp.op = "newMessage" /\ lastOp.result = 1
       \/ lastOp.op = "addVariableData" /\ lastOp.result < MaxPayload
    /\ mSendBuffer' = Append(mSendBuffer, byte)
    /\ Note(Op("addVariableData", 0, byte,
               IF lastOp.op = "newMessage" THEN 1 ELSE lastOp.result + 1))
    /\ UNCHANGED << mCircuitData, circuitVars, statVars, mCurrentMessage, mHandlerMap,
                    now, crashed, invoked, fed >>

\* processMessage, lines 313-338, on the built datagram as a peer receives
\* it: the message number and the payload offset it reads from the header
ParseHeader(junk) ==
    /\ ~ crashed
    /\ ~ (Len(mSendBuffer) < MinHeaderSize)
    /\ Note(Op("processMessage", 0, ParseMessageNumber(mSendBuffer, junk),
               ParseOffset(mSendBuffer, junk)))
    /\ UNCHANGED << mCircuitData, circuitVars, statVars, buildVars, mHandlerMap,
                    now, crashed, invoked, fed >>

\* headers are built for templates of the sampled numbers, payload bytes are
\* appended, and the datagram's header is parsed
CodecNext ==
    \/ \E r \in BOOLEAN, v \in OpcodeSamples : BuildHeader(r, v)
    \/ \E b \in PayloadBytes : AddVariableData(b)
    \/ \E j \in JunkBytes : ParseHeader(j)

SpecCodec == Constructed("ops", 0) /\ [][CodecNext]_vars

\* C22: for every sampled message number v, parsing a datagram that starts
\* with the header addMessageHeader emits for v yields the number v and a
\* payload offset equal to the length of that header; and the header for
\* 131072 (0x20000) is flags, four sequence bytes, 255, 255, 0, 0, 2, 0
C22_OpcodeRoundTrip ==
    [][ /\ \A v \in OpcodeSamples, r \in BOOLEAN, j \in JunkBytes :
             /\ ParseHeader(j)
             /\ \E p \in SeqsUpTo(PayloadBytes, MaxPayload) :
                   mSendBuffer = LoadedHeader(r, v) \o p
             => /\ lastOp'.id = v
                /\ lastOp'.result = Len(LoadedHeader(r, v))
        /\ \A r \in BOOLEAN :
             BuildHeader(r, 131072) =>
                SubSeq(mSendBuffer', 2, Len(mSendBuffer'))
                    = << 0, 0, 0, 0, 255, 255, 0, 0, 2, 0 >> ]_vars

\* the message number field of a built header: what follows the flags byte
\* and the four sequence bytes
NumberField(buffer) == SubSeq(buffer, 6, Len(buffer))

\* C23: addMessageHeader emits the message number v as one byte exactly when
\* v < 255, as 255 followed by two bytes, most significant first, exactly
\* when 255 <= v < 65536, and as 255, 255 followed by four bytes, least
\* significant first, otherwise; a one-byte field is never 255
C23_OpcodeWidth ==
    [][ \A v \in OpcodeSamples, r \in BOOLEAN :
          BuildHeader(r, v) =>
            LET field == NumberField(mSendBuffer')
            IN  /\ Len(field) = 1 <=> v < 255
                /\ field = << 255, (v \div 256) % 256, v % 256 >>
                     <=> (255 <= v /\ v < 65536)
                /\ field = << 255, 255 >> \o LE32(v) <=> ~ (v < 65536)
                /\ Len(field) = 1 => field[1] # 255 ]_vars

(* ------------------------------ zero coding --------------------------- *)

\* payload regions of at most MaxZeroPayload bytes over a zero byte, a run
\* length and two other bytes
MaxZeroPayload == 4
ZeroPayloadBytes == { 0, 3, 170, 187 }
ZeroPayloads == SeqsUpTo(ZeroPayloadBytes, MaxZeroPayload)

\* a CompletePingCheck datagram with the zero-coded flag and the payload p,
\* as a peer sends it
ZeroCodedDatagram(p) == HeaderBytes(LL_ZEROCODED_FLAG, 0, 2) \o p

\* a handler is registered for CompletePingCheck and checkMessages receives
\* zero-coded datagrams from host 1
ZeroNext ==
    \/ SetHandlerFunc("CompletePingCheck", 1)
    \/ \E p \in ZeroPayloads :
          CheckMessages(<< [ sender |-> 1, data |-> ZeroCodedDatagram(p) ] >>, 0)

SpecZero == Init /\ [][ZeroNext]_vars

\* C24: the payload a handler finds for a datagram with the zero-coded flag
\* is the wire payload with every pair (0, N) replaced by N zero bytes and
\* every other byte kept (for wire payloads in which every zero byte is
\* followed by a run length of at least 1); the wire payload 170, 0, 3, 187
\* is found as 170, 0, 0, 0, 187
C24_ZeroRunsExpanded ==
    [][ LET RECURSIVE WellCoded(_)
            WellCoded(p) ==
                IF p = << >> THEN TRUE
                ELSE IF Head(p) # 0 THEN WellCoded(Tail(p))
                ELSE Len(p) >= 2 /\ p[2] >= 1 /\ WellCoded(Tail(Tail(p)))
            RECURSIVE Expanded(_)
            Expanded(p) ==
                IF p = << >> THEN << >>
                ELSE IF Head(p) # 0 THEN << Head(p) >> \o Expanded(Tail(p))
                ELSE [ i \in 1 .. p[2] |-> 0 ] \o Expanded(Tail(Tail(p)))
        IN  \A p \in ZeroPayloads :
              /\ WellCoded(p)
              /\ CheckMessages(<< [ sender |-> 1, data |-> ZeroCodedDatagram(p) ] >>, 0)
              => \A i \in 1 .. Len(invoked') :
                    /\ invoked'[i].payload = Expanded(p)
                    /\ p = << 170, 0, 3, 187 >> =>
                          invoked'[i].payload = << 170, 0, 0, 0, 187 >> ]_vars

(* ------------------------- handlers of a datagram --------------------- *)

\* the handlers the application registers
HandlerIds == 1 .. MaxHandlers \cup { ThrowsStdException, ThrowsOther }

\* a well-formed CompletePingCheck datagram of a peer
PingDatagram == PeerDatagram(0, 0, 2, << >>)

\* the step is a checkMessages that receives one PingDatagram from host 1
ReceivesPing == CheckMessages(<< [ sender |-> 1, data |-> PingDatagram ] >>, 0)

\* handlers are registered for CompletePingCheck and checkMessages receives
\* a datagram of that message from host 1
HandlersNext ==
    \/ \E f \in HandlerIds : SetHandlerFunc("CompletePingCheck", f)
    \/ ReceivesPing

SpecHandlers == Constructed("ops", 0) /\ [][HandlersNext]_vars

\* the handlers registered for CompletePingCheck, in registration order
Registered == InvokedHandlers(mHandlerMap, "CompletePingCheck")

\* C25: for a received datagram the handlers registered under the message's
\* name are invoked in the order of their registration, each once
C25_HandlersInRegistrationOrder ==
    [][ ReceivesPing =>
          [ i \in 1 .. Len(invoked') |-> invoked'[i].handler ] = Registered ]_vars

\* C26: when a handler invoked for a datagram throws, every handler
\* registered after it for the message is still invoked and the datagram is
\* reported as processed
C26_HandlerFailureIsolated ==
    [][ ReceivesPing =>
          \A i \in 1 .. Len(Registered) :
             HandlerOutcome(Registered[i]) # "returns" =>
                /\ lastOp'.result = 0
                /\ \A j \in i + 1 .. Len(Registered) :
                      /\ j <= Len(invoked')
                      /\ invoked'[j].handler = Registered[j] ]_vars

(* ------------------------- transmitting a message --------------------- *)

\* messages are built and sent to hosts with or without a circuit; the
\* throttle admits every send, the transport takes the datagram or fails,
\* and the capacity of the table is set
TransportNext ==
    \/ \E n \in BuiltNames : NewMessage(n)
    \/ \E h \in Hosts, k \in BOOLEAN : SendMessage(h, TRUE, k)
    \/ \E n \in 1 .. NumHosts : SetMaxCircuits(n)

SpecTransport == Constructed("ops", 0) /\ [][TransportNext]_vars

\* the unacked map of host h before the step; empty when h has no circuit
UnackedBefore(h) ==
    IF h \in DOMAIN mCircuitData THEN mCircuitData[h].mUnackedPackets ELSE << >>

\* C27: when the transport fails in a sendMessage of a built message, the
\* call returns 0, nothing is added to the unacked map of the host's
\* circuit, and the global packets_out and bytes_out are as before
C27_FailedSendNotInstalled ==
    [][ \A h \in Hosts :
          SendMessage(h, TRUE, FALSE) /\ mSendBuffer # << >> =>
            /\ lastOp'.result = 0
            /\ mPacketsOut' = mPacketsOut
            /\ mBytesOut' = mBytesOut
            /\ h \in DOMAIN mCircuitData' =>
                  mCircuitData'[h].mUnackedPackets = UnackedBefore(h) ]_vars

\* C27 witness: after one reliable message was transmitted to a host, a
\* second send of a reliable message to it has just failed in the transport:
\* sequence number 1 was assigned and only sequence number 0 is unacked
C27_Witness ==
    /\ lastOp.op = "sendMessage"
    /\ lastOp.result = 0
    /\ lastOp.id = 1
    /\ mSendBuffer # << >>
    /\ TemplateByName(mCurrentMessage).reliable
    /\ mPacketsOut = 1
    /\ lastOp.host \in DOMAIN mCircuitData
    /\ UnackedKeys(mCircuitData[lastOp.host]) = { 0 }

\* C28: after a sendMessage that was admitted and transmitted, the unacked
\* map of the host's circuit holds the assigned sequence number when the
\* message's template is reliable, and is as before, without that number,
\* when it is not; ChatFromSimulator and RegionHandshake are not reliable
C28_InstalledIffReliable ==
    [][ \A h \in Hosts :
          /\ SendMessage(h, TRUE, TRUE)
          /\ mSendBuffer # << >>
          /\ h \in DOMAIN mCircuitData'
          => /\ lastOp'.result > 0
             /\ IF TemplateByName(mCurrentMessage).reliable
                THEN lastOp'.id \in UnackedKeys(mCircuitData'[h])
                ELSE /\ mCircuitData'[h].mUnackedPackets = UnackedBefore(h)
                     /\ lastOp'.id \notin UnackedKeys(mCircuitData'[h])
             /\ mCurrentMessage \in { "ChatFromSimulator", "RegionHandshake" } =>
                   mCircuitData'[h].mUnackedPackets = UnackedBefore(h) ]_vars

\* C28 witness: a reliable message was transmitted to a host with sequence
\* number 0 and a ChatFromSimulator has just been transmitted to it with
\* sequence number 1; only sequence number 0 is unacked
C28_Witness ==
    /\ lastOp.op = "sendMessage"
    /\ lastOp.result > 0
    /\ lastOp.id = 1
    /\ mCurrentMessage = "ChatFromSimulator"
    /\ mPacketsOut = 2
    /\ lastOp.host \in DOMAIN mCircuitData
    /\ UnackedKeys(mCircuitData[lastOp.host]) = { 0 }

(* ------------------------- datagrams that arrive ---------------------- *)

\* datagrams whose message number is in no template, with and without the
\* reliable flag, the number in one byte or in three
UnknownDatagrams ==
    { PeerDatagram(f, 0, n, << >>) : f \in { 0, LL_RELIABLE_FLAG }, n \in { 200, 256 } }

\* the step is a checkMessages that receives the one datagram d from host h
Receives(h, d) == CheckMessages(<< [ sender |-> h, data |-> d ] >>, 0)

\* the capacity of the table is set, messages are built and transmitted,
\* and checkMessages receives a well-formed CompletePingCheck
ReferenceNext ==
    \/ \E n \in 1 .. NumHosts : SetMaxCircuits(n)
    \/ \E n \in BuiltNames : NewMessage(n)
    \/ \E h \in Hosts : SendMessage(h, TRUE, TRUE)
    \/ \E h \in Hosts, d \in ReapDatagrams : Receives(h, d)

SpecReference == Constructed("ops", 0) /\ [][ReferenceNext]_vars

\* a handler is registered, a reliable message is built and transmitted to
\* host 1, the timeout passes, and checkMessages receives from any host a
\* well-formed CompletePingCheck or a datagram of an unknown message number
UnknownNext ==
    \/ SetHandlerFunc("CompletePingCheck", 1)
    \/ NewMessage("StartPingCheck")
    \/ SendMessage(1, TRUE, TRUE)
    \/ now < TickShort /\ Tick(TickShort)
    \/ \E h \in Hosts, d \in { PingDatagram } \cup UnknownDatagrams : Receives(h, d)

SpecUnknown == Constructed("ops", 0) /\ [][UnknownNext]_vars

\* C29: when the table is below its capacity, a sendMessage of a built
\* message to a host that has no circuit, and a checkMessages that receives
\* a well-formed datagram of a known message from such a host, with or
\* without the reliable flag, leave a circuit for the host in the table
C29_CreatedOnFirstReference ==
    [][ \A h \in Hosts :
          /\ h \notin DOMAIN mCircuitData
          /\ addCircuit_ok(mCircuitData, mMaxCircuits)
          /\ \/ Sending(h) /\ mSendBuffer # << >>
             \/ \E d \in ReapDatagrams : Receives(h, d)
          => h \in DOMAIN mCircuitData' ]_vars

\* C30: a checkMessages that receives a datagram of an unknown message
\* number counts it in packets_in and bytes_in, reports it as failed, invokes
\* no handler, and leaves the circuit table as a poll that received nothing
\* would: no circuit is created or changed for the sender
C30_UnknownDropped ==
    [][ \A h \in Hosts, d \in UnknownDatagrams :
          Receives(h, d) =>
            /\ lastOp'.result = 1
            /\ invoked' = << >>
            /\ mCircuitData' = LLCircuit_checkForTimeouts(mCircuitData, mAllowTimeout,
                                                         mTimeoutSeconds, now)
            /\ mPacketsIn' = U32(mPacketsIn + 1)
            /\ mBytesIn' = U32(mBytesIn + Len(d))
            /\ UNCHANGED << mPacketsOut, mBytesOut, buildVars, mHandlerMap >> ]_vars

\* C30 witness: a datagram of an unknown message number has just been
\* dropped while a handler is registered, one host has a circuit with an
\* unacked packet and another host has no circuit
C30_Witness ==
    /\ lastOp.op = "checkMessages"
    /\ lastOp.result = 1
    /\ mPacketsIn = 1
    /\ mHandlerMap # << >>
    /\ \E h \in DOMAIN mCircuitData : UnackedKeys(mCircuitData[h]) # {}
    /\ DOMAIN mCircuitData # Hosts

(* ------------------------------ one poll ------------------------------ *)

\* what the transport holds when checkMessages polls it: up to MaxBatch
\* well-formed CompletePingCheck datagrams of host 1
PollBatches ==
    SeqsUpTo({ [ sender |-> 1, data |-> d ] : d \in ReapDatagrams }, MaxBatch)

\* handlers are registered for CompletePingCheck, the clock advances, and
\* checkMessages polls a transport that holds a batch of datagrams
PollNext ==
    \/ \E f \in HandlerIds : SetHandlerFunc("CompletePingCheck", f)
    \/ now < TickShort /\ Tick(TickShort)
    \/ \E b \in PollBatches : CheckMessages(b, 0)

SpecPoll == Constructed("ops", 0) /\ [][PollNext]_vars

\* C31: a checkMessages that finds a batch of datagrams in the transport
\* receives and processes every datagram of the batch once, then sweeps the
\* circuit table once, after the last datagram, and returns
C31_PollDrainsThenSweeps ==
    [][ \A b \in PollBatches :
          CheckMessages(b, 0) =>
            /\ mPacketsIn' = U32(mPacketsIn + Len(b))
            /\ mBytesIn' = U32(mBytesIn + BatchBytes(b))
            /\ lastOp'.result >= 0
            /\ \E r \in { processAll(mCircuitData, b, mHandlerMap, mMaxCircuits, now, 0) } :
                  mCircuitData' = LLCircuit_checkForTimeouts(r.table, mAllowTimeout,
                                                             mTimeoutSeconds, now) ]_vars

(* ----------------------- the counters of a circuit -------------------- *)

\* the circuit of host 1 under every operation of LLCircuit: it is created,
\* replaced and removed, sequence numbers are drawn until the counters wrap,
\* packets are installed, acknowledged, swept and retried, and inbound
\* sequence numbers are classified
CountersNext ==
    \/ AddCircuit(1)
    \/ RemoveCircuit(1)
    \/ NextPacketIDCall(1)
    \/ AddReliablePacket(1, 0, 0)
    \/ AckReliablePacket(1, 0)
    \/ /\ 1 \in DOMAIN mCircuitData => mCircuitData[1].mPacketsIn < MaxReceived
       /\ CheckPacketIn(1, 0, "zero")
    \/ now < TickShort /\ Tick(TickShort)
    \/ CheckForTimeouts
    \/ ProcessRetries

SpecCounters == Init /\ [][CountersNext]_vars

\* C32: every circuit's packets_out equals its next outbound sequence number;
\* on a circuit that stays in the table the two change only in a
\* nextPacketID, each by one modulo 2^CounterBits
C32_PacketsOutIsNextSequence ==
    [][ /\ \A h \in DOMAIN mCircuitData' :
             mCircuitData'[h].mPacketsOut = mCircuitData'[h].mNextOutgoingSequence
        /\ \A h \in Staying :
             IF NextPacketIDCall(h)
             THEN /\ mCircuitData'[h].mPacketsOut = U32(mCircuitData[h].mPacketsOut + 1)
                  /\ mCircuitData'[h].mNextOutgoingSequence
                       = U32(mCircuitData[h].mNextOutgoingSequence + 1)
             ELSE ~ AddCircuit(h) =>
                  /\ mCircuitData'[h].mPacketsOut = mCircuitData[h].mPacketsOut
                  /\ mCircuitData'[h].mNextOutgoingSequence
                       = mCircuitData[h].mNextOutgoingSequence ]_vars

\* C32 witness: a circuit that has handed out every sequence number but one
\* holds an unacknowledged packet and has counted inbound datagrams
C32_Witness ==
    /\ 1 \in DOMAIN mCircuitData
    /\ mCircuitData[1].mPacketsOut = Modulus - 1
    /\ mCircuitData[1].mNextOutgoingSequence = Modulus - 1
    /\ UnackedKeys(mCircuitData[1]) # {}
    /\ mCircuitData[1].mPacketsIn > 0

(* ------------------- sequence numbers of rejected sends --------------- *)

\* the packets_out of the circuits of the hosts in H, summed
RECURSIVE CircuitPacketsOut(_)
CircuitPacketsOut(H) ==
    IF H = {} THEN 0
    ELSE LET h == CHOOSE x \in H : TRUE
         IN  mCircuitData[h].mPacketsOut + CircuitPacketsOut(H \ { h })

\* packets_out and the next outbound sequence number of host h before the
\* step; those of a fresh circuit when h has none
CountersBefore(h) ==
    IF h \in DOMAIN mCircuitData
    THEN << mCircuitData[h].mPacketsOut, mCircuitData[h].mNextOutgoingSequence >>
    ELSE << 0, 0 >>

\* C33: a sendMessage of a built message that the throttle rejects returns 0
\* and leaves the global packets_out and bytes_out and the unacked map as
\* they were, and the packets_out and the next outbound sequence number of
\* the host's circuit have each grown by one
C33_RejectedSendConsumesSequence ==
    [][ \A h \in Hosts :
          /\ SendMessage(h, FALSE, TRUE)
          /\ mSendBuffer # << >>
          /\ h \in DOMAIN mCircuitData'
          => /\ lastOp'.result = 0
             /\ mPacketsOut' = mPacketsOut
             /\ mBytesOut' = mBytesOut
             /\ mCircuitData'[h].mPacketsOut = U32(CountersBefore(h)[1] + 1)
             /\ mCircuitData'[h].mNextOutgoingSequence = U32(CountersBefore(h)[2] + 1)
             /\ lastOp'.id = CountersBefore(h)[2]
             /\ mCircuitData'[h].mUnackedPackets = UnackedBefore(h) ]_vars

\* C33 witness: the first send to a host was rejected by the throttle and the
\* second, of a reliable message, was transmitted: sequence number 0 never
\* went out, only sequence number 1 is unacked, and the circuits have counted
\* more packets than the message system
C33_Witness ==
    /\ lastOp.op = "sendMessage"
    /\ lastOp.result > 0
    /\ lastOp.id = 1
    /\ mPacketsOut = 1
    /\ lastOp.host \in DOMAIN mCircuitData
    /\ UnackedKeys(mCircuitData[lastOp.host]) = { 1 }
    /\ CircuitPacketsOut(DOMAIN mCircuitData) > mPacketsOut

(* ------------------------ sending past the capacity ------------------- *)

\* the capacity of the table is set, sequence numbers are drawn, and
\* messages are built and transmitted, to hosts with and without a circuit
FullNext ==
    \/ \E n \in 1 .. NumHosts : SetMaxCircuits(n)
    \/ \E h \in Hosts : NextPacketID(h)
    \/ \E n \in BuiltNames : NewMessage(n)
    \/ \E h \in Hosts : SendMessage(h, TRUE, TRUE)

SpecFull == Constructed("ops", 0) /\ [][FullNext]_vars

\* C34: on a full table nextPacketID for a host without a circuit returns 0,
\* the number a new circuit hands out first, and leaves the table as it was;
\* a sendMessage of a built message to such a host transmits the datagram
\* under the number 0 and leaves the table as it was, so that no circuit
\* holds a record of the datagram, reliable or not
C34_FullTableSendUntracked ==
    [][ \A h \in Hosts :
          /\ h \notin DOMAIN mCircuitData /\ NextPacketID(h) => lastOp'.result = 0
          /\ FullWithout(h) /\ NextPacketID(h) => mCircuitData' = mCircuitData
          /\ FullWithout(h) /\ SendMessage(h, TRUE, TRUE) /\ mSendBuffer # << >> =>
                /\ lastOp'.id = 0
                /\ lastOp'.result = Len(mSendBuffer)
                /\ mPacketsOut' = U32(mPacketsOut + 1)
                /\ mBytesOut' = U32(mBytesOut + Len(mSendBuffer))
                /\ mCircuitData' = mCircuitData ]_vars

\* C34 witness: a reliable message has just been transmitted under the
\* number 0 to a host without a circuit while the table is full, and the
\* circuit of another host holds its own packet 0 unacknowledged
C34_Witness ==
    /\ lastOp.op = "sendMessage"
    /\ lastOp.result > 0
    /\ lastOp.id = 0
    /\ lastOp.host \notin DOMAIN mCircuitData
    /\ Cardinality(DOMAIN mCircuitData) = mMaxCircuits
    /\ TemplateByName(mCurrentMessage).reliable
    /\ mPacketsOut = MaxSent
    /\ \E g \in DOMAIN mCircuitData : UnackedKeys(mCircuitData[g]) = { 0 }

(* ------------------- one circuit for a host (threads) ----------------- *)

\* C35: the addCircuit a nextPacketID makes for its host never replaces a
\* circuit the host already has: the circuit another thread created and
\* advanced in the meantime stays as it is
C35_CircuitNeverReplaced ==
    [][ \A t \in Threads :
          AddCircuitBody(t) /\ threads[t].host \in DOMAIN mCircuitData =>
             mCircuitData'[threads[t].host] = mCircuitData[threads[t].host] ]_vars

(* ---------------------------- the two mutexes ------------------------- *)

\* a std::lock_guard on mutex m around the mutex steps of body
Within(m, body) == << << "lock", m >> >> \o body \o << << "unlock", m >> >>

\* LLCircuit's operations that hold mCircuitMutex from entry to return and
\* call nothing that locks: findCircuit, addCircuit, removeCircuit,
\* checkForTimeouts, getNumCircuits, dumpCircuits, processRetries,
\* getGlobalStats
CircuitGuarded == Within("mCircuitMutex", << >>)

\* LLCircuit::ackReliablePacket: findCircuit, then the circuit without a mutex
ackReliablePacket_locks == CircuitGuarded

\* LLCircuit::addReliablePacket, nextPacketID, checkPacketIn: findCircuit,
\* and addCircuit when it found nothing
FindOrAdd_locks == { CircuitGuarded, CircuitGuarded \o CircuitGuarded }

\* a printStats that takes mCircuitMutex itself before it calls getGlobalStats
printStats_locks_held == Within("mCircuitMutex", CircuitGuarded)

\* LLCircuit::printStats: takes no mutex itself and calls getGlobalStats
printStats_locks == CircuitGuarded

\* LLMessageSystem's operations that hold mMessageMutex from entry to return
\* and call nothing that locks: newMessage, addString, addU32, addF32,
\* addVector3, getString, getU32, getF32, getVector3, setHandlerFunc
MessageGuarded == Within("mMessageMutex", << >>)

\* LLMessageSystem::sendMessage: under mMessageMutex, nothing (empty buffer),
\* or nextPacketID (throttled, unreliable or failed send), or nextPacketID
\* and addReliablePacket
sendMessage_locks ==
    { MessageGuarded }
      \cup { Within("mMessageMutex", n) : n \in FindOrAdd_locks }
      \cup { Within("mMessageMutex", n \o a) : n \in FindOrAdd_locks, a \in FindOrAdd_locks }

\* what a handler does with the message system it is handed: nothing, or one
\* of newMessage, add*, get*, or sendMessage
Handler_locks == { << >>, MessageGuarded } \cup sendMessage_locks

\* LLMessageSystem::processMessage: no mutex of its own; addReliablePacket
\* for a reliable datagram, then the handler
processMessage_locks ==
    { a \o f : a \in { << >> } \cup FindOrAdd_locks, f \in Handler_locks }

\* LLMessageSystem::checkMessages: no mutex of its own; nothing received, or
\* one datagram processed; then LLCircuit's sweep
checkMessages_locks ==
    { CircuitGuarded } \cup { p \o CircuitGuarded : p \in processMessage_locks }

\* the mutex steps of the public operations of LLMessageSystem and LLCircuit
PublicOperations ==
    { CircuitGuarded, ackReliablePacket_locks, printStats_locks, MessageGuarded }
      \cup FindOrAdd_locks \cup sendMessage_locks \cup checkMessages_locks

\* the mutex variable a step names, and the thread that holds it (0: free)
Holder(m) == IF m = "mMessageMutex" THEN mMessageMutex ELSE mCircuitMutex

\* what a step of a thread in a public operation leaves alone
callerFrame ==
    UNCHANGED << mCircuitData, circuitVars, statVars, buildVars, mHandlerMap, now,
                 crashed, invoked, history, lastOp, fed, pc, threads >>

\* a thread enters a public operation
Enter(t, prog) ==
    /\ callers[t] = << >>
    /\ callers' = [ callers EXCEPT ![t] = prog ]
    /\ UNCHANGED << mMessageMutex, mCircuitMutex >>
    /\ callerFrame

\* std::mutex::lock: the thread proceeds when the mutex is free; a thread
\* that holds the mutex already never proceeds
Acquire(t) ==
    /\ callers[t] # << >>
    /\ Head(callers[t])[1] = "lock"
    /\ Holder(Head(callers[t])[2]) = 0
    /\ IF Head(callers[t])[2] = "mMessageMutex"
       THEN mMessageMutex' = t /\ UNCHANGED mCircuitMutex
       ELSE mCircuitMutex' = t /\ UNCHANGED mMessageMutex
    /\ callers' = [ callers EXCEPT ![t] = Tail(@) ]
    /\ callerFrame

\* the lock_guard goes out of scope
Release(t) ==
    /\ callers[t] # << >>
    /\ Head(callers[t])[1] = "unlock"
    /\ IF Head(callers[t])[2] = "mMessageMutex"
       THEN mMessageMutex' = 0 /\ UNCHANGED mCircuitMutex
       ELSE mCircuitMutex' = 0 /\ UNCHANGED mMessageMutex
    /\ callers' = [ callers EXCEPT ![t] = Tail(@) ]
    /\ callerFrame

\* threads call the public operations of both classes
LocksNext ==
    \E t \in Threads :
        \/ \E prog \in PublicOperations : Enter(t, prog)
        \/ Acquire(t)
        \/ Release(t)

SpecLocks == Init /\ [][LocksNext]_vars

\* thread t is at a lock of a mutex that is held
Waits(t) ==
    /\ callers[t] # << >>
    /\ Head(callers[t])[1] = "lock"
    /\ Holder(Head(callers[t])[2]) # 0

\* C36: no thread comes to lock mMessageMutex while it holds mCircuitMutex,
\* no thread comes to lock a mutex it holds, and there is no set of threads
\* each of which waits for a mutex held by a thread of the set
C36_NoDeadlock ==
    /\ \A t \in Threads :
          callers[t] # << >> /\ Head(callers[t])[1] = "lock" =>
             /\ Head(callers[t])[2] = "mMessageMutex" => mCircuitMutex # t
             /\ Holder(Head(callers[t])[2]) # t
    /\ \A D \in SUBSET Threads \ { {} } :
          ~ \A t \in D : Waits(t) /\ Holder(Head(callers[t])[2]) \in D

\* C36 witness: one thread is inside a handler's sendMessage, called from
\* checkMessages, and holds both mutexes, while another thread waits for
\* mMessageMutex
C36_Witness ==
    \E t, u \in Threads :
        /\ mMessageMutex = t
        /\ mCircuitMutex = t
        /\ callers[t][Len(callers[t])] = << "unlock", "mCircuitMutex" >>
        /\ Waits(u)
        /\ Head(callers[u])[2] = "mMessageMutex"

(* --------------------- acknowledgements that find nothing ------------- *)

\* reliable messages are built and transmitted to host 1, time passes, the
\* table is swept and retries are processed, and acknowledgements arrive for
\* any host and any sequence number, sent or not
AckNext ==
    \/ NewMessage("StartPingCheck")
    \/ SendMessage(1, TRUE, TRUE)
    \/ now + TickShort <= SystemTime /\ Tick(TickShort)
    \/ CheckForTimeouts
    \/ ProcessRetries
    \/ \E h \in Hosts, id \in 0 .. MaxSeq : AckReliablePacket(h, id)

SpecAck == Constructed("ops", 0) /\ [][AckNext]_vars

\* C37: an ackReliablePacket for a host without a circuit, or for a sequence
\* number that is not in the unacked map of the host's circuit, leaves the
\* table and every circuit in it as they were
C37_AckOfUnknownChangesNothing ==
    [][ \A h \in Hosts, id \in 0 .. MaxSeq :
          /\ AckReliablePacket(h, id)
          /\ h \in DOMAIN mCircuitData => id \notin UnackedKeys(mCircuitData[h])
          => mCircuitData' = mCircuitData ]_vars

\* C37 witness: sequence number 0 has just been acknowledged a second time:
\* the first acknowledgement took a round-trip sample and left sequence
\* number 1 as the oldest unacked
C37_Witness ==
    /\ lastOp.op = "ackReliablePacket"
    /\ lastOp.id = 0
    /\ lastOp.host \in DOMAIN mCircuitData
    /\ mCircuitData[lastOp.host].mPingDelay = TickShort
    /\ mCircuitData[lastOp.host].mOldestUnackedPacket = 1
    /\ UnackedKeys(mCircuitData[lastOp.host]) = { 1 }
    /\ now = 2 * TickShort

\* C38: an ackReliablePacket for a sequence number whose packet is in the
\* retry queue leaves the circuit as it was, the packet in the queue and no
\* round-trip sample taken; a packet leaves the retry queue only in a
\* processRetries, which empties the queue
C38_AckMissesRetryQueue ==
    [][ /\ \A h \in DOMAIN mCircuitData, id \in 0 .. MaxSeq :
             AckReliablePacket(h, id) /\ id \in RetrySeqs(mCircuitData[h]) =>
                /\ h \in DOMAIN mCircuitData'
                /\ mCircuitData'[h] = mCircuitData[h]
        /\ \A h \in Staying :
             IF ProcessRetries
             THEN mCircuitData'[h].mRetryQueue = << >>
             ELSE RetrySeqs(mCircuitData[h]) \subseteq RetrySeqs(mCircuitData'[h]) ]_vars

\* C38 witness: the packet with sequence number 0 timed out and was moved to
\* the retry queue, and its acknowledgement has just arrived: the packet is
\* still queued and the circuit has no round-trip sample
C38_Witness ==
    /\ lastOp.op = "ackReliablePacket"
    /\ lastOp.id = 0
    /\ lastOp.host \in DOMAIN mCircuitData
    /\ 0 \in RetrySeqs(mCircuitData[lastOp.host])
    /\ mCircuitData[lastOp.host].mPingDelay = 0
    /\ mCircuitData[lastOp.host].mPingDelayAveraged = 0

(* ----------------------- what the parser reads ------------------------ *)

\* the longest datagram received: as long as the longest header
MaxDatagramLen == 11

\* the indices decodeZeroData(buffer + offset, size - offset) reads: i and
\* i + 1 for every i < size - offset - 1
decodeZeroData_reads(offset, size) ==
    IF 0 < size - offset - 1 THEN offset .. size - 1 ELSE {}

\* the indices of the receive buffer processMessage reads for a datagram of
\* Len(buffer) bytes: the flags and the sequence number, the message number
\* field as far as its first bytes say, and the payload region when the
\* message is known and zero-coded
processMessage_reads(buffer, junk) ==
    IF Len(buffer) < MinHeaderSize THEN {}
    ELSE 0 .. 5
           \cup (IF ByteAt(buffer, 5, junk) = 255
                 THEN { 6 } \cup (IF ByteAt(buffer, 6, junk) = 255
                                 THEN 7 .. 10 ELSE { 7 })
                 ELSE {})
           \cup (IF /\ KnownNumber(ParseMessageNumber(buffer, junk))
                    /\ HasFlag(ByteAt(buffer, 0, junk), LL_ZEROCODED_FLAG)
                 THEN decodeZeroData_reads(ParseOffset(buffer, junk), Len(buffer))
                 ELSE {})

\* datagrams of every length from one byte on: the flags byte with or
\* without the zero-coded flag, sequence number 0, in bytes 5 and 6 the
\* number of CompletePingCheck or the escape byte, and 0 or 2 after them
ParserDatagrams ==
    { [ i \in 1 .. n |->
          IF i = 1 THEN f
          ELSE IF i <= 5 THEN 0
          ELSE IF i <= 7 THEN n57[i - 5]
          ELSE rest[i - 7] ] :
        n \in 1 .. MaxDatagramLen,
        f \in { 0, LL_ZEROCODED_FLAG },
        n57 \in [ 1 .. 2 -> { 2, 255 } ],
        rest \in [ 1 .. MaxDatagramLen - 7 -> { 0, 2 } ] }

\* a handler is registered for CompletePingCheck and checkMessages receives
\* datagrams of every length; the receive buffer holds junk past a datagram
ParserNext ==
    \/ SetHandlerFunc("CompletePingCheck", 1)
    \/ \E d \in ParserDatagrams, j \in JunkBytes :
          CheckMessages(<< [ sender |-> 1, data |-> d ] >>, j)

SpecParser == Constructed("ops", 0) /\ [][ParserNext]_vars

\* C39: for every datagram received, processMessage reads the receive buffer
\* only at indices below the datagram's length
C39_ReadsWithinDatagram ==
    [][ \A d \in ParserDatagrams, j \in JunkBytes :
          CheckMessages(<< [ sender |-> 1, data |-> d ] >>, j) =>
             processMessage_reads(d, j) \subseteq 0 .. Len(d) - 1 ]_vars

(* ---------------------- statistics across a sweep --------------------- *)

\* the sum of a counter over the circuits of the hosts in H, as a U32
RECURSIVE SumOver(_, _, _)
SumOver(tbl, H, counter) ==
    IF H = {} THEN 0
    ELSE LET h == CHOOSE x \in H : TRUE
         IN  U32(tbl[h][counter] + SumOver(tbl, H \ { h }, counter))

\* LLCircuit::getGlobalStats (without the ping average)
getGlobalStats(tbl) ==
    [ total_circuits     |-> Cardinality(DOMAIN tbl),
      alive_circuits     |-> Cardinality({ h \in DOMAIN tbl : tbl[h].mAlive }),
      blocked_circuits   |-> Cardinality({ h \in DOMAIN tbl : tbl[h].mBlocked }),
      total_packets_out  |-> SumOver(tbl, DOMAIN tbl, "mPacketsOut"),
      total_packets_in   |-> SumOver(tbl, DOMAIN tbl, "mPacketsIn"),
      total_packets_lost |-> SumOver(tbl, DOMAIN tbl, "mPacketsLost") ]

\* LLCircuitData::setAlive on the circuit findCircuit returns for h
SetAlive(h, alive) ==
    /\ ~ crashed
    /\ h \in DOMAIN mCircuitData
    /\ mCircuitData' = [ mCircuitData EXCEPT ![h].mAlive = alive ]
    /\ Note(Op("setAlive", h, IF alive THEN 1 ELSE 0, 0))
    /\ UNCHANGED << circuitVars, statVars, buildVars, mHandlerMap, now, crashed, invoked, fed >>

\* two hosts: sequence numbers are drawn, an inbound sequence number after a
\* gap is classified, a circuit is marked dead or alive by the application,
\* more than the liveness limit passes, and the table is swept
StatsNext ==
    \/ \E h \in { 1, 2 } : NextPacketID(h)
    \/ \E h \in { 1, 2 } : Len(fed) < MaxReceived /\ CheckPacketIn(h, 1, "zero")
    \/ \E h \in { 1, 2 }, a \in BOOLEAN : SetAlive(h, a)
    \/ now <= CircuitDeadSeconds /\ Tick(CircuitDeadSeconds + 1)
    \/ CheckForTimeouts

SpecStats == Constructed("fed", 0) /\ [][StatsNext]_vars

\* the circuits the step erases
Reaped == DOMAIN mCircuitData \ DOMAIN mCircuitData'

=============================================================================
